---- MODULE Spec2Model ----
(***************************************************************************)
(* Model of the transaction delay insurance.                               *)
(*                                                                         *)
(* On chain, the Policy contract (contracts/src/Policy.sol): coverage      *)
(* purchase, claim verification and payout, fee withdrawal and the owner   *)
(* operations, with the external value transfer of a payout modelled as a  *)
(* call that is in flight until the recipient accepts or rejects it.       *)
(*                                                                         *)
(* Off chain, the RPC proxy (rpc/src/proxy.js, cache.js, blockchain.js):   *)
(* the two broadcast handlers, the confirmation monitors, the transaction  *)
(* cache with its cleanup, and the signing of delay proofs. A handler is   *)
(* split where it awaits the chain, other handlers running in between.     *)
(***************************************************************************)
EXTENDS Integers, FiniteSets, Sequences, TLC

VARIABLES
    policyConfig,       \* PolicyConfig public policyConfig
    rpcProxyAddress,    \* address public rpcProxyAddress
    totalPool,          \* uint256 public totalPool
    totalProtocolFees,  \* uint256 public totalProtocolFees
    userInsurance,      \* mapping(address => UserInsurance)
    processedClaims,    \* mapping(bytes32 => bool)
    balance,            \* native currency held by each address
    blockNumber,        \* block.number
    guardStatus,        \* ReentrancyGuard's status word
    call,               \* the external value transfer in flight, or NoCall
    claimApproved,      \* number of ClaimApproved events logged per txHash
    cache,              \* TransactionCache.cache: Map txHash -> data
    now,                \* Date.now()
    chainHeight,        \* what provider.getBlockNumber() answers
    mempool,            \* transactions the network accepted and has not mined
    receipts,           \* block of each mined transaction
    broadcasts,         \* position of the broadcast request of each transaction
    lookups,            \* GET /tx/:txHash requests waiting for a receipt
    monitors,           \* position of the confirmation monitor of each transaction
    attestations,       \* the delay proofs signDelayProof has returned
    signer,             \* BlockchainService.signer (and signerAddress)
    firstWrite          \* history: the timestamp of each record's first write

storage == <<policyConfig, rpcProxyAddress, totalPool, totalProtocolFees,
             userInsurance, processedClaims>>
policyVars == <<policyConfig, rpcProxyAddress, totalPool, totalProtocolFees,
                userInsurance, processedClaims, balance, blockNumber, guardStatus,
                call, claimApproved>>
proxyVars == <<cache, now, chainHeight, mempool, receipts, broadcasts, lookups,
               monitors, attestations, signer, firstWrite>>
vars == <<policyVars, proxyVars>>

----------------------------------------------------------------------------
(* Bounds of the model *)

MaxHeight == 3        \* heights of a claim proof range over 0..MaxHeight
MaxBlock == 2         \* block.number ranges over 1..MaxBlock
InitialFunds == 2     \* wei each user holds before any purchase
MaxDeposited == 2     \* an address deposits at most this much in total

MaxQuoted == 4        \* quotes are asked for amounts 1..MaxQuoted

MaxChainHeight == 2   \* the chain the proxy talks to grows from block 0 to this
MaxTime == 1          \* Date.now() ranges over 0..MaxTime
MaxPolls == 2         \* receipt polls a confirmation monitor makes (60 in the code)
maxAgeMs == 0         \* config.cache.maxAgeMs, in ticks of Date.now()

(* Program constants *)

BASIS_POINTS == 10000

----------------------------------------------------------------------------
(* Addresses, keys and inputs *)

ZeroAddress == "address(0)"
UnrelatedAddress == "unrelated"   \* what ecrecover yields for a digest the key never signed
owner == "owner"
policyFactory == "factory"
PolicyAddress == "policy"
Users == {"user1", "user2"}
Callers == {owner, policyFactory} \cup Users
Signers == {"rpcProxy", "newRpcProxy"}
TxHashes == {"tx1", "tx2"}
Heights == 0..MaxHeight
BroadcastHeights == {0, 1}

DelayThresholds == {1, 2}
PayoutsPerIncident == {1}
PremiumPercentages == {100}
ProtocolFeePercentages == {5000}

\* Parameters of the policies whose pricing is explored
PricedDelayThresholds == {1}
PricedPayoutsPerIncident == {1, 2}
PricedPremiumPercentages == {100, 5000}

NOT_ENTERED == "NOT_ENTERED"
ENTERED == "ENTERED"
NoCall == [fn |-> "none"]
NoProof == [txHash |-> "none"]

----------------------------------------------------------------------------
(* Digest and signature *)

\* keccak256(abi.encodePacked(bytes32, uint256, uint256)): three fixed-width
\* words, so the packed encoding is the ordered triple itself.
PackedDigest(txHash, broadcastBlock, confirmationBlock) ==
    <<txHash, broadcastBlock, confirmationBlock>>

toEthSignedMessageHash(digest) == <<"EthereumSignedMessage32", digest>>

\* A well-formed signature is determined by the key and the digest it signed.
Sign(key, digest) == [signer |-> key, signed |-> digest]
MalformedSignature == [signer |-> ZeroAddress, signed |-> <<>>]

\* ECDSA.recover: the signing key's address on the digest that was signed, some
\* address without a known key on any other digest, address(0) (the library
\* reverts) on a malformed signature.
recover(digest, signature) ==
    IF signature = MalformedSignature THEN ZeroAddress
    ELSE IF signature.signed = digest THEN signature.signer
    ELSE UnrelatedAddress

Signatures ==
    {Sign(k, toEthSignedMessageHash(PackedDigest(t, b, c))) :
        k \in Signers, t \in TxHashes, b \in BroadcastHeights, c \in Heights}
    \cup {MalformedSignature}

ProofDigest(proof) ==
    toEthSignedMessageHash(
        PackedDigest(proof.txHash, proof.broadcastBlock, proof.confirmationBlock))

\* Number of fields in which the proved tuple differs from the signed one.
FieldsDiffering(proof) ==
    LET s == proof.rpcSignature.signed[2]
    IN  (IF s[1] # proof.txHash THEN 1 ELSE 0)
      + (IF s[2] # proof.broadcastBlock THEN 1 ELSE 0)
      + (IF s[3] # proof.confirmationBlock THEN 1 ELSE 0)

\* The claim proofs submitted: every tuple, with a malformed signature or with a
\* signature of either key over that tuple or over one differing in one field.
ClaimProofs ==
    {p \in [txHash : TxHashes, broadcastBlock : BroadcastHeights,
            confirmationBlock : Heights, rpcSignature : Signatures] :
        \/ p.rpcSignature = MalformedSignature
        \/ FieldsDiffering(p) <= 1}

----------------------------------------------------------------------------
(* JavaScript values, and the RPC proxy when it starts *)

undefined == [type |-> "undefined"]
null == [type |-> "null"]
Num(n) == [type |-> "number", value |-> n]
Str(s) == [type |-> "string", value |-> s]

\* ToBoolean: undefined, null, 0 and "" are falsy.
truthy(v) ==
    \/ v.type = "number" /\ v.value # 0
    \/ v.type = "string" /\ v.value # ""

\* The key of the proxy's wallet; NoKey when BlockchainService.init() failed
\* after the provider was set, which leaves signer and signerAddress null.
signerAddress == "rpcProxy"
NoKey == "null"

\* Transactions are sent through POST /tx/broadcast (signed by the proxy's
\* wallet) or arrive signed through eth_sendRawTransaction; their hashes differ.
PostedTxs == {"tx1"}
RawTxs == {"tx2"}

NoBroadcast == [pc |-> "idle", broadcastBlock |-> undefined, timestamp |-> undefined]
NoMonitor == [pc |-> "none", attempts |-> 0, proof |-> undefined]
EmptyMap == [t \in {} |-> undefined]

\* RPCProxyServer.initialize(): an empty cache, no request and no monitor, a
\* chain at its first block, and a wallet for one of the given keys.
initialize(keys) ==
    /\ cache = EmptyMap
    /\ now = 0
    /\ chainHeight = 0
    /\ mempool = {}
    /\ receipts = EmptyMap
    /\ broadcasts = [t \in TxHashes |-> NoBroadcast]
    /\ lookups = {}
    /\ monitors = [t \in TxHashes |-> NoMonitor]
    /\ attestations = {}
    /\ signer \in keys
    /\ firstWrite = EmptyMap

----------------------------------------------------------------------------
(* Transaction atomicity *)

World ==
    [policyConfig |-> policyConfig, rpcProxyAddress |-> rpcProxyAddress,
     totalPool |-> totalPool, totalProtocolFees |-> totalProtocolFees,
     userInsurance |-> userInsurance, processedClaims |-> processedClaims,
     balance |-> balance]

\* A call that reverts: none of its writes persists, the value it carried
\* stays with the sender, and an outer call in flight is not affected.
Revert == UNCHANGED vars

\* The transaction that opened the transfer reverts: every write since its start
\* (nested calls included) is undone and the lock is free again.
RevertTransaction ==
    /\ policyConfig' = call.saved.policyConfig
    /\ rpcProxyAddress' = call.saved.rpcProxyAddress
    /\ totalPool' = call.saved.totalPool
    /\ totalProtocolFees' = call.saved.totalProtocolFees
    /\ userInsurance' = call.saved.userInsurance
    /\ processedClaims' = call.saved.processedClaims
    /\ balance' = call.saved.balance
    /\ guardStatus' = NOT_ENTERED
    /\ call' = NoCall
    /\ UNCHANGED <<blockNumber, claimApproved>>

\* address.call{value: v}(""): the value moves and control passes to the recipient.
Send(from, to, amount) ==
    IF from = to THEN balance
    ELSE [balance EXCEPT ![from] = @ - amount, ![to] = @ + amount]

----------------------------------------------------------------------------
(* Modifiers *)

\* Variant: the modifier is missing.
nonReentrantMissing == TRUE

\* nonReentrant: the call proceeds only when no guarded call is executing.
nonReentrant == guardStatus # ENTERED

\* onlyOwner
onlyOwner(sender) == sender = owner

----------------------------------------------------------------------------
(* Construction and configuration *)

\* Variant: the require on the delay threshold is missing.
ConfigureRevertReasonWithoutDelayCheck(delayThreshold, premiumPercentage, protocolFeePercentage, payoutPerIncident) ==
    IF ~(premiumPercentage <= BASIS_POINTS) THEN "Premium percentage too high"
    ELSE IF ~(protocolFeePercentage <= BASIS_POINTS)
        THEN "Protocol fee percentage too high"
    ELSE IF ~(payoutPerIncident > 0) THEN "Payout per incident must be positive"
    ELSE "ok"

\* The require chain of _configurePolicyParams: the first failing reason, or "ok".
ConfigureRevertReason(delayThreshold, premiumPercentage, protocolFeePercentage, payoutPerIncident) ==
    IF ~(premiumPercentage <= BASIS_POINTS) THEN "Premium percentage too high"
    ELSE IF ~(protocolFeePercentage <= BASIS_POINTS)
        THEN "Protocol fee percentage too high"
    ELSE IF ~(delayThreshold > 0) THEN "Delay threshold must be positive"
    ELSE IF ~(payoutPerIncident > 0) THEN "Payout per incident must be positive"
    ELSE "ok"

\* The PolicyConfig that _configurePolicyParams stores.
ConfiguredPolicy(delayThreshold, premiumPercentage, protocolFeePercentage, payoutPerIncident) ==
    [delayThreshold |-> delayThreshold,
     premiumPercentage |-> premiumPercentage,
     protocolFeePercentage |-> protocolFeePercentage,
     payoutPerIncident |-> payoutPerIncident,
     active |-> TRUE]

NoInsurance == [ethDeposited |-> 0, incidentsRemaining |-> 0, lastClaimBlock |-> 0]

\* The states a successful constructor leaves, for arguments drawn from the
\* given sets: the attester is stored unchecked, the parameters pass the
\* require chain of _configurePolicyParams or the deployment reverts.
constructor(rpcProxyAddresses, delayThresholds, premiumPercentages, protocolFeePercentages, payoutsPerIncident) ==
    /\ \E d \in delayThresholds, pr \in premiumPercentages,
          f \in protocolFeePercentages, p \in payoutsPerIncident :
          /\ ConfigureRevertReason(d, pr, f, p) = "ok"
          /\ policyConfig = ConfiguredPolicy(d, pr, f, p)
    /\ rpcProxyAddress \in rpcProxyAddresses
    /\ totalPool = 0
    /\ totalProtocolFees = 0
    /\ userInsurance = [a \in Callers |-> NoInsurance]
    /\ processedClaims = [t \in TxHashes |-> FALSE]
    /\ balance = [a \in Callers \cup {PolicyAddress} |->
                    IF a \in Users THEN InitialFunds ELSE 0]
    /\ blockNumber = 1
    /\ guardStatus = NOT_ENTERED
    /\ call = NoCall
    /\ claimApproved = [t \in TxHashes |-> 0]

Init ==
    /\ constructor(Signers \cup {ZeroAddress},
                   DelayThresholds \cup {0},
                   PremiumPercentages \cup {BASIS_POINTS + 1},
                   ProtocolFeePercentages \cup {BASIS_POINTS + 1},
                   PayoutsPerIncident \cup {0})
    /\ initialize({signerAddress})

\* How a call of configurePolicyParams ends: "ok" or the reason of its revert.
configurePolicyParamsOutcome(sender, delayThreshold, premiumPercentage, protocolFeePercentage, payoutPerIncident) ==
    IF ~onlyOwner(sender) THEN "OwnableUnauthorizedAccount"
    ELSE ConfigureRevertReason(delayThreshold, premiumPercentage,
                               protocolFeePercentage, payoutPerIncident)

configurePolicyParams(sender, delayThreshold, premiumPercentage, protocolFeePercentage, payoutPerIncident) ==
    IF configurePolicyParamsOutcome(sender, delayThreshold, premiumPercentage,
                                    protocolFeePercentage, payoutPerIncident) # "ok"
    THEN Revert
    ELSE /\ policyConfig' = ConfiguredPolicy(delayThreshold, premiumPercentage,
                                protocolFeePercentage, payoutPerIncident)
         /\ UNCHANGED <<rpcProxyAddress, totalPool, totalProtocolFees,
                        userInsurance, processedClaims, balance, blockNumber,
                        guardStatus, call, claimApproved>>

setRpcProxyAddressOutcome(sender, newAddress) ==
    IF ~onlyOwner(sender) THEN "OwnableUnauthorizedAccount"
    ELSE IF ~(newAddress # ZeroAddress) THEN "Invalid RPC proxy address"
    ELSE "ok"

setRpcProxyAddress(sender, newAddress) ==
    IF setRpcProxyAddressOutcome(sender, newAddress) # "ok" THEN Revert
    ELSE /\ rpcProxyAddress' = newAddress
         /\ UNCHANGED <<policyConfig, totalPool, totalProtocolFees, userInsurance,
                        processedClaims, balance, blockNumber, guardStatus, call,
                        claimApproved>>

togglePolicyStatusOutcome(sender) ==
    IF ~(sender = owner \/ sender = policyFactory) THEN "Unauthorized" ELSE "ok"

togglePolicyStatus(sender) ==
    IF togglePolicyStatusOutcome(sender) # "ok" THEN Revert
    ELSE /\ policyConfig' = [policyConfig EXCEPT !.active = ~@]
         /\ UNCHANGED <<rpcProxyAddress, totalPool, totalProtocolFees,
                        userInsurance, processedClaims, balance, blockNumber,
                        guardStatus, call, claimApproved>>

----------------------------------------------------------------------------
(* Coverage purchase *)

getShareQuoteOutcome(ethAmount) ==
    IF ~policyConfig.active THEN "Policy not active"
    ELSE IF ~(ethAmount > 0) THEN "ETH amount must be positive"
    ELSE "ok"

\* Variant: the number of incidents is rounded up.
getShareQuoteRoundingUp(ethAmount) ==
    [premium |-> (totalPool * policyConfig.premiumPercentage) \div BASIS_POINTS,
     incidentsCovered |->
        (ethAmount + policyConfig.payoutPerIncident - 1)
           \div policyConfig.payoutPerIncident]

getShareQuote(ethAmount) ==
    [premium |-> (totalPool * policyConfig.premiumPercentage) \div BASIS_POINTS,
     incidentsCovered |-> ethAmount \div policyConfig.payoutPerIncident]

purchaseShareOutcome(sender, value) ==
    IF ~nonReentrant THEN "ReentrancyGuardReentrantCall"
    ELSE IF ~policyConfig.active THEN "Policy not active"
    ELSE IF ~(value > 0) THEN "Must send ETH"
    ELSE IF getShareQuoteOutcome(value) # "ok" THEN getShareQuoteOutcome(value)
    ELSE IF ~(getShareQuote(value).incidentsCovered > 0)
        THEN "ETH amount too small for coverage"
    ELSE "ok"

\* Variant: a deposit too small for any coverage is kept instead of reverted.
purchaseShareKeepingDust(sender, value) ==
    LET quote == getShareQuote(value)
        protocolFee == (value * policyConfig.protocolFeePercentage) \div BASIS_POINTS
        toPool == value - protocolFee
    IN  IF purchaseShareOutcome(sender, value)
              \notin {"ok", "ETH amount too small for coverage"}
        THEN Revert
        ELSE /\ userInsurance' = [userInsurance EXCEPT
                    ![sender].ethDeposited = @ + value,
                    ![sender].incidentsRemaining = @ + quote.incidentsCovered]
             /\ totalPool' = totalPool + toPool
             /\ totalProtocolFees' = totalProtocolFees + protocolFee
             /\ balance' = Send(sender, PolicyAddress, value)
             /\ UNCHANGED <<policyConfig, rpcProxyAddress, processedClaims,
                            blockNumber, guardStatus, call, claimApproved>>

\* Variant: the whole value goes to the pool, the fee being counted on top.
purchaseSharePoolingWholeValue(sender, value) ==
    LET quote == getShareQuote(value)
        protocolFee == (value * policyConfig.protocolFeePercentage) \div BASIS_POINTS
    IN  IF purchaseShareOutcome(sender, value) # "ok" THEN Revert
        ELSE /\ userInsurance' = [userInsurance EXCEPT
                    ![sender].ethDeposited = @ + value,
                    ![sender].incidentsRemaining = @ + quote.incidentsCovered]
             /\ totalPool' = totalPool + value
             /\ totalProtocolFees' = totalProtocolFees + protocolFee
             /\ balance' = Send(sender, PolicyAddress, value)
             /\ UNCHANGED <<policyConfig, rpcProxyAddress, processedClaims,
                            blockNumber, guardStatus, call, claimApproved>>

\* Variant: coverage is credited for the part of the value that reaches the pool.
purchaseShareCoveringPoolShare(sender, value) ==
    LET protocolFee == (value * policyConfig.protocolFeePercentage) \div BASIS_POINTS
        toPool == value - protocolFee
    IN  IF purchaseShareOutcome(sender, value) # "ok" THEN Revert
        ELSE /\ userInsurance' = [userInsurance EXCEPT
                    ![sender].ethDeposited = @ + value,
                    ![sender].incidentsRemaining =
                        @ + toPool \div policyConfig.payoutPerIncident]
             /\ totalPool' = totalPool + toPool
             /\ totalProtocolFees' = totalProtocolFees + protocolFee
             /\ balance' = Send(sender, PolicyAddress, value)
             /\ UNCHANGED <<policyConfig, rpcProxyAddress, processedClaims,
                            blockNumber, guardStatus, call, claimApproved>>

purchaseShare(sender, value) ==
    LET quote == getShareQuote(value)
        protocolFee == (value * policyConfig.protocolFeePercentage) \div BASIS_POINTS
        toPool == value - protocolFee
    IN  IF purchaseShareOutcome(sender, value) # "ok" THEN Revert
        ELSE /\ userInsurance' = [userInsurance EXCEPT
                    ![sender].ethDeposited = @ + value,
                    ![sender].incidentsRemaining = @ + quote.incidentsCovered]
             /\ totalPool' = totalPool + toPool
             /\ totalProtocolFees' = totalProtocolFees + protocolFee
             /\ balance' = Send(sender, PolicyAddress, value)
             /\ UNCHANGED <<policyConfig, rpcProxyAddress, processedClaims,
                            blockNumber, guardStatus, call, claimApproved>>

----------------------------------------------------------------------------
(* Claim verification and payout *)

\* Variant: the processed mark is never consulted.
NotYetProcessedUnchecked(proof) == TRUE

\* require(!processedClaims[proof.txHash])
NotYetProcessed(proof) == ~processedClaims[proof.txHash]

\* Variant: the threshold itself qualifies.
DelayAtLeastThreshold(proof) ==
    proof.confirmationBlock - proof.broadcastBlock >= policyConfig.delayThreshold

\* require(delay > policyConfig.delayThreshold)
DelaySufficient(proof) ==
    proof.confirmationBlock - proof.broadcastBlock > policyConfig.delayThreshold

\* Variant: any well-formed signature passes, whoever signed whatever.
SignedByAnyone(proof) ==
    recover(ProofDigest(proof), proof.rpcSignature) # ZeroAddress

\* require(recoveredSigner == rpcProxyAddress)
SignedByRpcProxy(proof) ==
    recover(ProofDigest(proof), proof.rpcSignature) = rpcProxyAddress

\* Variant: the digest that is recovered from covers the caller as well.
ClaimRevertReasonBoundToClaimant(sender, proof) ==
    LET digest == toEthSignedMessageHash(
                     <<proof.txHash, proof.broadcastBlock, proof.confirmationBlock,
                       sender>>)
    IN  IF ~policyConfig.active THEN "Policy not active"
        ELSE IF ~NotYetProcessed(proof) THEN "Claim already processed"
        ELSE IF ~(userInsurance[sender].incidentsRemaining > 0)
            THEN "No incidents remaining"
        ELSE IF proof.confirmationBlock < proof.broadcastBlock
            THEN "Panic(0x11)"
        ELSE IF ~DelaySufficient(proof) THEN "Delay not sufficient for claim"
        ELSE IF recover(digest, proof.rpcSignature) = ZeroAddress
            THEN "ECDSAInvalidSignature"
        ELSE IF ~(recover(digest, proof.rpcSignature) = rpcProxyAddress)
            THEN "Invalid RPC signature"
        ELSE "ok"

\* The checks of submitClaim up to the signature check, in the order of the code:
\* the reason of the first one that fails, or "ok". The subtraction is checked
\* uint256 arithmetic and ECDSA.recover reverts with its own error.
ClaimRevertReason(sender, proof) ==
    IF ~policyConfig.active THEN "Policy not active"
    ELSE IF ~NotYetProcessed(proof) THEN "Claim already processed"
    ELSE IF ~(userInsurance[sender].incidentsRemaining > 0)
        THEN "No incidents remaining"
    ELSE IF proof.confirmationBlock < proof.broadcastBlock
        THEN "Panic(0x11)"
    ELSE IF ~DelaySufficient(proof) THEN "Delay not sufficient for claim"
    ELSE IF recover(ProofDigest(proof), proof.rpcSignature) = ZeroAddress
        THEN "ECDSAInvalidSignature"
    ELSE IF ~SignedByRpcProxy(proof) THEN "Invalid RPC signature"
    ELSE "ok"

\* How a call of submitClaim ends before its value transfer: "ok" when it goes
\* on to pay, else the reason of its revert.
submitClaimOutcome(sender, proof) ==
    IF ~nonReentrant THEN "ReentrancyGuardReentrantCall"
    ELSE IF ClaimRevertReason(sender, proof) # "ok"
        THEN ClaimRevertReason(sender, proof)
    ELSE IF ~(totalPool >= policyConfig.payoutPerIncident)
        THEN "Insufficient pool funds"
    ELSE IF balance[PolicyAddress] < policyConfig.payoutPerIncident
        THEN "Payout transfer failed"
    ELSE "ok"

\* The call frame of a value transfer: who receives what, on behalf of which
\* function and with which argument, and the world the transaction started in.
Transfer(fn, to, amount, proof) ==
    [fn |-> fn, to |-> to, value |-> amount, proof |-> proof, saved |-> World]

\* Variant: the payout branch without the processed mark of l.195.
PayClaimWithoutMark(sender, proof) ==
    LET payout == policyConfig.payoutPerIncident
    IN  /\ userInsurance' = [userInsurance EXCEPT
               ![sender].incidentsRemaining = @ - 1,
               ![sender].lastClaimBlock = blockNumber]
        /\ totalPool' = totalPool - payout
        /\ balance' = Send(PolicyAddress, sender, payout)
        /\ guardStatus' = ENTERED
        /\ call' = Transfer("submitClaim", sender, payout, proof)
        /\ UNCHANGED <<policyConfig, rpcProxyAddress, totalProtocolFees, blockNumber,
                       claimApproved, processedClaims>>

\* Variant: the payout branch without the lastClaimBlock write of l.205.
PayClaimKeepingLastClaimBlock(sender, proof) ==
    LET payout == policyConfig.payoutPerIncident
    IN  /\ processedClaims' = [processedClaims EXCEPT ![proof.txHash] = TRUE]
        /\ userInsurance' = [userInsurance EXCEPT
               ![sender].incidentsRemaining = @ - 1]
        /\ totalPool' = totalPool - payout
        /\ balance' = Send(PolicyAddress, sender, payout)
        /\ guardStatus' = ENTERED
        /\ call' = Transfer("submitClaim", sender, payout, proof)
        /\ UNCHANGED <<policyConfig, rpcProxyAddress, totalProtocolFees, blockNumber,
                       claimApproved>>

\* Variant: the transfer is made first, the writes being left for after it.
PayBeforeWrites(sender, proof) ==
    LET payout == policyConfig.payoutPerIncident
    IN  /\ balance' = Send(PolicyAddress, sender, payout)
        /\ guardStatus' = ENTERED
        /\ call' = Transfer("submitClaim", sender, payout, proof)
        /\ UNCHANGED <<storage, blockNumber, claimApproved>>

\* Variant: the payout is also taken off the claimant's deposited value.
PayClaimSpendingDeposit(sender, proof) ==
    LET payout == policyConfig.payoutPerIncident
    IN  /\ processedClaims' = [processedClaims EXCEPT ![proof.txHash] = TRUE]
        /\ userInsurance' = [userInsurance EXCEPT
               ![sender].ethDeposited = @ - payout,
               ![sender].incidentsRemaining = @ - 1,
               ![sender].lastClaimBlock = blockNumber]
        /\ totalPool' = totalPool - payout
        /\ balance' = Send(PolicyAddress, sender, payout)
        /\ guardStatus' = ENTERED
        /\ call' = Transfer("submitClaim", sender, payout, proof)
        /\ UNCHANGED <<policyConfig, rpcProxyAddress, totalProtocolFees, blockNumber,
                       claimApproved>>

\* Variant: the payout is sent without being taken off totalPool.
PayClaimKeepingPool(sender, proof) ==
    LET payout == policyConfig.payoutPerIncident
    IN  /\ processedClaims' = [processedClaims EXCEPT ![proof.txHash] = TRUE]
        /\ userInsurance' = [userInsurance EXCEPT
               ![sender].incidentsRemaining = @ - 1,
               ![sender].lastClaimBlock = blockNumber]
        /\ balance' = Send(PolicyAddress, sender, payout)
        /\ guardStatus' = ENTERED
        /\ call' = Transfer("submitClaim", sender, payout, proof)
        /\ UNCHANGED <<policyConfig, rpcProxyAddress, totalPool, totalProtocolFees,
                       blockNumber, claimApproved>>

\* Variant: the payout is what the caller deposited per incident held.
PayClaimAtPurchasePrice(sender, proof) ==
    LET payout == userInsurance[sender].ethDeposited
                     \div userInsurance[sender].incidentsRemaining
    IN  /\ processedClaims' = [processedClaims EXCEPT ![proof.txHash] = TRUE]
        /\ userInsurance' = [userInsurance EXCEPT
               ![sender].incidentsRemaining = @ - 1,
               ![sender].lastClaimBlock = blockNumber]
        /\ totalPool' = totalPool - payout
        /\ balance' = Send(PolicyAddress, sender, payout)
        /\ guardStatus' = ENTERED
        /\ call' = Transfer("submitClaim", sender, payout, proof)
        /\ UNCHANGED <<policyConfig, rpcProxyAddress, totalProtocolFees, blockNumber,
                       claimApproved>>

\* The branch totalPool >= payout: the writes, then the transfer to the caller.
PayClaim(sender, proof) ==
    LET payout == policyConfig.payoutPerIncident
    IN  /\ processedClaims' = [processedClaims EXCEPT ![proof.txHash] = TRUE]
        /\ userInsurance' = [userInsurance EXCEPT
               ![sender].incidentsRemaining = @ - 1,
               ![sender].lastClaimBlock = blockNumber]
        /\ totalPool' = totalPool - payout
        /\ balance' = Send(PolicyAddress, sender, payout)
        /\ guardStatus' = ENTERED
        /\ call' = Transfer("submitClaim", sender, payout, proof)
        /\ UNCHANGED <<policyConfig, rpcProxyAddress, totalProtocolFees, blockNumber,
                       claimApproved>>

\* Variant: the branch returns instead of reverting, so the mark of l.195 stays.
RejectKeepingMark(sender, proof) ==
    /\ processedClaims' = [processedClaims EXCEPT ![proof.txHash] = TRUE]
    /\ UNCHANGED <<policyConfig, rpcProxyAddress, totalPool, totalProtocolFees,
                   userInsurance, balance, blockNumber, guardStatus, call,
                   claimApproved>>

\* The branch totalPool < payout: revert, which also undoes the processed mark
\* written just before.
RejectInsufficientPool(sender, proof) == Revert

submitClaim(sender, proof) ==
    IF submitClaimOutcome(sender, proof) = "ok" THEN PayClaim(sender, proof)
    ELSE IF submitClaimOutcome(sender, proof) = "Insufficient pool funds"
        THEN RejectInsufficientPool(sender, proof)
    ELSE Revert

----------------------------------------------------------------------------
(* Fee withdrawal *)

withdrawProtocolFeesOutcome(sender) ==
    IF ~onlyOwner(sender) THEN "OwnableUnauthorizedAccount"
    ELSE IF ~nonReentrant THEN "ReentrancyGuardReentrantCall"
    ELSE IF ~(totalProtocolFees > 0) THEN "No fees to withdraw"
    ELSE IF balance[PolicyAddress] < totalProtocolFees THEN "Fee withdrawal failed"
    ELSE "ok"

\* Variant: the fees are sent without being set to zero.
withdrawProtocolFeesKeepingFees(sender) ==
    IF withdrawProtocolFeesOutcome(sender) # "ok" THEN Revert
    ELSE /\ balance' = Send(PolicyAddress, owner, totalProtocolFees)
         /\ guardStatus' = ENTERED
         /\ call' = Transfer("withdrawProtocolFees", owner, totalProtocolFees, NoProof)
         /\ UNCHANGED <<policyConfig, rpcProxyAddress, totalPool, totalProtocolFees,
                        userInsurance, processedClaims, blockNumber, claimApproved>>

\* Variant: the withdrawal takes the pool along with the fees.
withdrawProtocolFeesWithPool(sender) ==
    IF withdrawProtocolFeesOutcome(sender) # "ok" THEN Revert
    ELSE /\ totalProtocolFees' = 0
         /\ totalPool' = 0
         /\ balance' = Send(PolicyAddress, owner, totalProtocolFees + totalPool)
         /\ guardStatus' = ENTERED
         /\ call' = Transfer("withdrawProtocolFees", owner,
                             totalProtocolFees + totalPool, NoProof)
         /\ UNCHANGED <<policyConfig, rpcProxyAddress, userInsurance,
                        processedClaims, blockNumber, claimApproved>>

withdrawProtocolFees(sender) ==
    IF withdrawProtocolFeesOutcome(sender) # "ok" THEN Revert
    ELSE /\ totalProtocolFees' = 0
         /\ balance' = Send(PolicyAddress, owner, totalProtocolFees)
         /\ guardStatus' = ENTERED
         /\ call' = Transfer("withdrawProtocolFees", owner, totalProtocolFees, NoProof)
         /\ UNCHANGED <<policyConfig, rpcProxyAddress, totalPool, userInsurance,
                        processedClaims, blockNumber, claimApproved>>

----------------------------------------------------------------------------
(* The recipient's side of a value transfer *)

\* emit ClaimApproved(msg.sender, proof.txHash, payout)
LogClaimApproved ==
    IF call.fn = "submitClaim"
    THEN [claimApproved EXCEPT ![call.proof.txHash] = @ + 1]
    ELSE claimApproved

\* The recipient returns normally: require(success) passes, the function logs
\* its event and ends, and nonReentrant releases the lock.
transferAccepted ==
    /\ call # NoCall
    /\ claimApproved' = LogClaimApproved
    /\ guardStatus' = NOT_ENTERED
    /\ call' = NoCall
    /\ UNCHANGED <<storage, balance, blockNumber>>

\* Variant: the result of the transfer is ignored: the value stays with the
\* policy, the writes made before the transfer stay too.
IgnoreFailedTransfer ==
    /\ balance' = call.saved.balance
    /\ guardStatus' = NOT_ENTERED
    /\ call' = NoCall
    /\ UNCHANGED <<storage, blockNumber, claimApproved>>

\* require(success, ...) when the recipient rejects the funds.
requireSuccess == RevertTransaction

transferRejected ==
    /\ call # NoCall
    /\ requireSuccess

----------------------------------------------------------------------------
(* The chain *)

mineBlock ==
    /\ call = NoCall
    /\ blockNumber < MaxBlock
    /\ blockNumber' = blockNumber + 1
    /\ UNCHANGED <<storage, balance, guardStatus, call, claimApproved>>

\* Who can call the policy: anyone between transactions; while a value transfer
\* is in flight, the recipient that control was passed to.
Senders == IF call = NoCall THEN Callers ELSE {call.to}

\* The proofs a caller submits for a transaction identity. A call that reverts
\* before the heights and the signature are read is the same step whatever they
\* are, so one proof stands for all proofs of that identity there.
ProofsOf == [t \in TxHashes |-> {p \in ClaimProofs : p.txHash = t}]
AnyProofOf == [t \in TxHashes |-> CHOOSE p \in ProofsOf[t] : TRUE]
ProofsToTry(sender, txHash) ==
    IF submitClaimOutcome(sender, AnyProofOf[txHash]) \in
          {"ReentrancyGuardReentrantCall", "Policy not active",
           "Claim already processed", "No incidents remaining"}
    THEN {AnyProofOf[txHash]}
    ELSE ProofsOf[txHash]

Next ==
    \/ /\ \E sender \in Senders, txHash \in TxHashes :
             \E proof \in ProofsToTry(sender, txHash) : submitClaim(sender, proof)
       /\ UNCHANGED proxyVars
    \/ /\ \E sender \in Senders : \E value \in 0..balance[sender] :
             /\ userInsurance[sender].ethDeposited + value <= MaxDeposited
             /\ purchaseShare(sender, value)
       /\ UNCHANGED proxyVars
    \/ /\ \E sender \in Senders : withdrawProtocolFees(sender)
       /\ UNCHANGED proxyVars
    \/ /\ \E sender \in Senders, d \in DelayThresholds \cup {0},
             pr \in PremiumPercentages \cup {BASIS_POINTS + 1},
             f \in ProtocolFeePercentages \cup {BASIS_POINTS + 1},
             p \in PayoutsPerIncident \cup {0} :
             configurePolicyParams(sender, d, pr, f, p)
       /\ UNCHANGED proxyVars
    \/ /\ \E sender \in Senders, a \in Signers \cup {ZeroAddress} :
             setRpcProxyAddress(sender, a)
       /\ UNCHANGED proxyVars
    \/ /\ \E sender \in Senders : togglePolicyStatus(sender)
       /\ UNCHANGED proxyVars
    \/ /\ transferAccepted
       /\ UNCHANGED proxyVars
    \/ /\ transferRejected
       /\ UNCHANGED proxyVars
    \/ /\ mineBlock
       /\ UNCHANGED proxyVars

Spec == Init /\ [][Next]_vars

\* Policies with one attester and one delay threshold, and with payouts and
\* premium percentages for which a deposit can be too small for any coverage
\* and a quoted premium is not zero; the attester and the block stay as they are.
PricedInit ==
    /\ constructor({"rpcProxy"},
                   PricedDelayThresholds \cup {0},
                   PricedPremiumPercentages \cup {BASIS_POINTS + 1},
                   ProtocolFeePercentages \cup {BASIS_POINTS + 1},
                   PricedPayoutsPerIncident \cup {0})
    /\ initialize({signerAddress})

PricedNext ==
    \/ /\ \E sender \in Senders, txHash \in TxHashes :
             \E proof \in ProofsToTry(sender, txHash) : submitClaim(sender, proof)
       /\ UNCHANGED proxyVars
    \/ /\ \E sender \in Senders : \E value \in 0..balance[sender] :
             /\ userInsurance[sender].ethDeposited + value <= MaxDeposited
             /\ purchaseShare(sender, value)
       /\ UNCHANGED proxyVars
    \/ /\ \E sender \in Senders : withdrawProtocolFees(sender)
       /\ UNCHANGED proxyVars
    \/ /\ \E sender \in Senders, d \in PricedDelayThresholds \cup {0},
             pr \in PricedPremiumPercentages \cup {BASIS_POINTS + 1},
             f \in ProtocolFeePercentages \cup {BASIS_POINTS + 1},
             p \in PricedPayoutsPerIncident \cup {0} :
             configurePolicyParams(sender, d, pr, f, p)
       /\ UNCHANGED proxyVars
    \/ /\ \E sender \in Senders : togglePolicyStatus(sender)
       /\ UNCHANGED proxyVars
    \/ /\ transferAccepted
       /\ UNCHANGED proxyVars
    \/ /\ transferRejected
       /\ UNCHANGED proxyVars

PricedSpec == PricedInit /\ [][PricedNext]_vars

----------------------------------------------------------------------------
(* TransactionCache (rpc/src/cache.js); this.cache is the argument map *)

\* {...existing}: the fields of the record, none of them for undefined. Of the
\* fields the code writes, receipt, confirmationTimestamp and failureTimestamp
\* are left out: the proxy stores them and decides nothing by them.
NoFields ==
    [broadcastBlock |-> undefined, broadcastTimestamp |-> undefined,
     timestamp |-> undefined, status |-> undefined,
     confirmationBlock |-> undefined, delay |-> undefined, error |-> undefined]

spread(existing) == IF existing = undefined THEN NoFields ELSE existing

\* Map.get and Map.set
getTransaction(map, txHash) ==
    IF txHash \in DOMAIN map THEN map[txHash] ELSE undefined

set(map, txHash, data) ==
    [t \in DOMAIN map \cup {txHash} |-> IF t = txHash THEN data ELSE map[t]]

storeBroadcast(map, txHash, broadcastBlock, timestamp) ==
    LET existing == getTransaction(map, txHash)
        data == [spread(existing) EXCEPT
                    !.broadcastBlock = broadcastBlock,
                    !.broadcastTimestamp = timestamp,
                    !.timestamp = IF existing # undefined
                                  THEN existing.timestamp ELSE timestamp,
                    !.status = Str("broadcast")]
    IN  set(map, txHash, data)

\* The receipt is kept as the block it names.
storeConfirmation(map, txHash, confirmationBlock, timestamp) ==
    LET existing == getTransaction(map, txHash)
        data == [spread(existing) EXCEPT
                    !.confirmationBlock = confirmationBlock,
                    !.status = Str("confirmed"),
                    !.delay = IF existing # undefined /\ truthy(existing.broadcastBlock)
                              THEN Num(confirmationBlock.value
                                         - existing.broadcastBlock.value)
                              ELSE null]
    IN  set(map, txHash, data)

storeFailure(map, txHash, error, timestamp) ==
    LET existing == getTransaction(map, txHash)
        data == [spread(existing) EXCEPT
                    !.error = error,
                    !.status = Str("failed")]
    IN  set(map, txHash, data)

\* now - data.timestamp > maxAgeMs; the difference is NaN, and the comparison
\* false, when the record has no timestamp.
expired(data, time) ==
    /\ data.timestamp.type = "number"
    /\ time - data.timestamp.value > maxAgeMs

cleanup(map, time) ==
    [t \in {u \in DOMAIN map : ~expired(map[u], time)} |-> map[t]]

----------------------------------------------------------------------------
(* BlockchainService (rpc/src/blockchain.js) *)

getCurrentBlockNumber == Num(chainHeight)

\* The receipt of a mined transaction, null while there is none.
getTransactionReceipt(txHash) ==
    IF txHash \in DOMAIN receipts
    THEN [type |-> "object", blockNumber |-> Num(receipts[txHash])]
    ELSE null

\* solidityPackedKeccak256 of the three fields, signed as an Ethereum message.
signDelayProof(txHash, broadcastBlock, confirmationBlock) ==
    LET message == PackedDigest(txHash, broadcastBlock.value, confirmationBlock.value)
    IN  [txHash |-> txHash,
         broadcastBlock |-> broadcastBlock,
         confirmationBlock |-> confirmationBlock,
         signature |-> Sign(signer, toEthSignedMessageHash(message)),
         signer |-> signer,
         messageHash |-> message]

\* Variant: any well-formed signature of the proxy's key passes, whatever it signs.
verifyDelayProofOfAnyMessage(proof) ==
    /\ proof.signature # MalformedSignature
    /\ signer # NoKey
    /\ proof.signature.signer = signer

\* ethers.verifyMessage throws on a malformed signature, and toLowerCase on a
\* null signerAddress; the catch answers false.
verifyDelayProof(proof) ==
    LET message == PackedDigest(proof.txHash, proof.broadcastBlock.value,
                                proof.confirmationBlock.value)
        recoveredAddress == recover(toEthSignedMessageHash(message), proof.signature)
    IN  IF recoveredAddress = ZeroAddress \/ signer = NoKey THEN FALSE
        ELSE recoveredAddress = signer

----------------------------------------------------------------------------
(* RPCProxyServer (rpc/src/proxy.js) *)

maxAttempts == MaxPolls
maxRetries == MaxPolls

NotYetSent(txHash) == txHash \notin mempool /\ txHash \notin DOMAIN receipts

\* POST /tx/broadcast up to the answer of getCurrentBlockNumber.
postTxBroadcast(txHash) ==
    /\ broadcasts[txHash].pc = "idle"
    /\ NotYetSent(txHash)
    /\ broadcasts' = [broadcasts EXCEPT ![txHash] =
          [pc |-> "send", broadcastBlock |-> getCurrentBlockNumber,
           timestamp |-> undefined]]
    /\ UNCHANGED <<cache, now, chainHeight, mempool, receipts, lookups, monitors,
                   attestations, signer>>

\* The handler goes on: Date.now(), then sendTransaction, which the network
\* accepts or which throws (it always throws without a wallet); the catch
\* answers 500.
postTxBroadcastSend(txHash, accepted) ==
    /\ broadcasts[txHash].pc = "send"
    /\ accepted => signer # NoKey
    /\ IF accepted
       THEN /\ mempool' = mempool \cup {txHash}
            /\ broadcasts' = [broadcasts EXCEPT ![txHash].pc = "store",
                                                ![txHash].timestamp = Num(now)]
       ELSE /\ broadcasts' = [broadcasts EXCEPT ![txHash] = NoBroadcast]
            /\ UNCHANGED mempool
    /\ UNCHANGED <<cache, now, chainHeight, receipts, lookups, monitors,
                   attestations, signer>>

\* sendTransaction has returned the transaction: storeBroadcast, then
\* monitorTransaction, whose first poll is scheduled.
postTxBroadcastStore(txHash) ==
    /\ broadcasts[txHash].pc = "store"
    /\ cache' = storeBroadcast(cache, txHash, broadcasts[txHash].broadcastBlock,
                               broadcasts[txHash].timestamp)
    /\ monitors' = [monitors EXCEPT ![txHash] =
          [pc |-> "polling", attempts |-> 0, proof |-> undefined]]
    /\ broadcasts' = [broadcasts EXCEPT ![txHash] = NoBroadcast]
    /\ UNCHANGED <<now, chainHeight, mempool, receipts, lookups, attestations,
                   signer>>

\* handleTransactionBroadcast up to the answer of getCurrentBlockNumber.
handleTransactionBroadcast(txHash) ==
    /\ broadcasts[txHash].pc = "idle"
    /\ NotYetSent(txHash)
    /\ broadcasts' = [broadcasts EXCEPT ![txHash] =
          [pc |-> "forward", broadcastBlock |-> getCurrentBlockNumber,
           timestamp |-> Num(now)]]
    /\ UNCHANGED <<cache, now, chainHeight, mempool, receipts, lookups, monitors,
                   attestations, signer>>

\* What the upstream node makes of the forwarded payload: it accepts the
\* transaction and answers its hash, answers an error without a result, or
\* the request throws.
ForwardResults == {"result", "no result", "throws"}

\* Variant: an answer without a result is stored and monitored all the same.
handleTransactionBroadcastForwardTrackingAnyAnswer(txHash, upstream) ==
    /\ broadcasts[txHash].pc = "forward"
    /\ IF upstream = "result"
       THEN /\ mempool' = mempool \cup {txHash}
            /\ broadcasts' = [broadcasts EXCEPT ![txHash].pc = "store"]
            /\ UNCHANGED <<cache, monitors>>
       ELSE IF upstream = "no result"
       THEN /\ cache' = storeBroadcast(cache, txHash,
                                       broadcasts[txHash].broadcastBlock,
                                       broadcasts[txHash].timestamp)
            /\ monitors' = [monitors EXCEPT ![txHash] =
                  [pc |-> "polling", attempts |-> 0, proof |-> undefined]]
            /\ broadcasts' = [broadcasts EXCEPT ![txHash] = NoBroadcast]
            /\ UNCHANGED mempool
       ELSE /\ broadcasts' = [broadcasts EXCEPT ![txHash] = NoBroadcast]
            /\ UNCHANGED <<mempool, cache, monitors>>
    /\ UNCHANGED <<now, chainHeight, receipts, lookups, attestations, signer>>

\* The forward and, when it yields no hash, the end of the handler.
handleTransactionBroadcastForward(txHash, upstream) ==
    /\ broadcasts[txHash].pc = "forward"
    /\ IF upstream = "result"
       THEN /\ mempool' = mempool \cup {txHash}
            /\ broadcasts' = [broadcasts EXCEPT ![txHash].pc = "store"]
       ELSE /\ broadcasts' = [broadcasts EXCEPT ![txHash] = NoBroadcast]
            /\ UNCHANGED mempool
    /\ UNCHANGED <<cache, now, chainHeight, receipts, lookups, monitors,
                   attestations, signer>>

\* Variant: the block number is read when the upstream has answered.
handleTransactionBroadcastStoreReadingLate(txHash) ==
    /\ broadcasts[txHash].pc = "store"
    /\ cache' = storeBroadcast(cache, txHash, getCurrentBlockNumber,
                               broadcasts[txHash].timestamp)
    /\ monitors' = [monitors EXCEPT ![txHash] =
          [pc |-> "polling", attempts |-> 0, proof |-> undefined]]
    /\ broadcasts' = [broadcasts EXCEPT ![txHash] = NoBroadcast]
    /\ UNCHANGED <<now, chainHeight, mempool, receipts, lookups, attestations,
                   signer>>

\* upstream.data.result is the hash: storeBroadcast, then
\* monitorTransactionInBackground, whose first poll is under way.
handleTransactionBroadcastStore(txHash) ==
    /\ broadcasts[txHash].pc = "store"
    /\ cache' = storeBroadcast(cache, txHash, broadcasts[txHash].broadcastBlock,
                               broadcasts[txHash].timestamp)
    /\ monitors' = [monitors EXCEPT ![txHash] =
          [pc |-> "polling", attempts |-> 0, proof |-> undefined]]
    /\ broadcasts' = [broadcasts EXCEPT ![txHash] = NoBroadcast]
    /\ UNCHANGED <<now, chainHeight, mempool, receipts, lookups, attestations,
                   signer>>

\* Variant: one more run is scheduled when the budget is used up.
monitorTransactionOneMore(txHash, pollError) ==
    LET attempts == monitors[txHash].attempts + 1
        receipt == getTransactionReceipt(txHash)
    IN  /\ monitors[txHash].pc = "polling"
        /\ IF ~pollError /\ receipt # null
           THEN /\ cache' = storeConfirmation(cache, txHash, receipt.blockNumber,
                                              Num(now))
                /\ monitors' = [monitors EXCEPT ![txHash].pc = "done",
                                                ![txHash].attempts = attempts]
           ELSE IF attempts <= maxAttempts
           THEN /\ monitors' = [monitors EXCEPT ![txHash].attempts = attempts]
                /\ UNCHANGED cache
           ELSE /\ cache' = IF pollError
                            THEN storeFailure(cache, txHash, Str("poll error"),
                                              Num(now))
                            ELSE cache
                /\ monitors' = [monitors EXCEPT ![txHash].pc = "done",
                                                ![txHash].attempts = attempts]
        /\ UNCHANGED <<now, chainHeight, mempool, receipts, broadcasts, lookups,
                       attestations, signer>>

\* One run of the monitor closure of monitorTransaction; pollError when
\* getTransactionReceipt throws.
monitorTransaction(txHash, pollError) ==
    LET attempts == monitors[txHash].attempts + 1
        receipt == getTransactionReceipt(txHash)
    IN  /\ monitors[txHash].pc = "polling"
        /\ IF ~pollError /\ receipt # null
           THEN /\ cache' = storeConfirmation(cache, txHash, receipt.blockNumber,
                                              Num(now))
                /\ monitors' = [monitors EXCEPT ![txHash].pc = "done",
                                                ![txHash].attempts = attempts]
           ELSE IF attempts < maxAttempts
           THEN /\ monitors' = [monitors EXCEPT ![txHash].attempts = attempts]
                /\ UNCHANGED cache
           ELSE /\ cache' = IF pollError
                            THEN storeFailure(cache, txHash, Str("poll error"),
                                              Num(now))
                            ELSE cache
                /\ monitors' = [monitors EXCEPT ![txHash].pc = "done",
                                                ![txHash].attempts = attempts]
        /\ UNCHANGED <<now, chainHeight, mempool, receipts, broadcasts, lookups,
                       attestations, signer>>

\* One run of the monitor closure of monitorTransactionInBackground, up to the
\* call of signDelayProof when there is one.
monitorTransactionInBackground(txHash, pollError) ==
    LET retries == monitors[txHash].attempts + 1
        receipt == getTransactionReceipt(txHash)
        confirmed == storeConfirmation(cache, txHash, receipt.blockNumber, Num(now))
        cachedData == getTransaction(confirmed, txHash)
    IN  /\ monitors[txHash].pc = "polling"
        /\ IF pollError
           THEN /\ cache' = storeFailure(cache, txHash, Str("poll error"), Num(now))
                /\ monitors' = [monitors EXCEPT ![txHash].pc = "done"]
           ELSE IF receipt # null
           THEN /\ cache' = confirmed
                /\ monitors' = [monitors EXCEPT ![txHash] =
                      IF truthy(cachedData.broadcastBlock)
                            /\ truthy(receipt.blockNumber)
                      THEN [pc |-> "signing", attempts |-> @.attempts,
                            proof |-> [txHash |-> txHash,
                                       broadcastBlock |-> cachedData.broadcastBlock,
                                       confirmationBlock |-> receipt.blockNumber]]
                      ELSE [@ EXCEPT !.pc = "done"]]
           ELSE /\ monitors' = [monitors EXCEPT
                      ![txHash].attempts = retries,
                      ![txHash].pc = IF retries < maxRetries
                                     THEN "polling" ELSE "done"]
                /\ UNCHANGED cache
        /\ UNCHANGED <<now, chainHeight, mempool, receipts, broadcasts, lookups,
                       attestations, signer>>

\* signDelayProof returns to the monitor, or throws (there is no wallet) into
\* the monitor's catch, which stores a failure.
monitorTransactionInBackgroundSigned(txHash) ==
    LET proof == monitors[txHash].proof
    IN  /\ monitors[txHash].pc = "signing"
        /\ IF signer # NoKey
           THEN /\ attestations' = attestations \cup
                      {signDelayProof(proof.txHash, proof.broadcastBlock,
                                      proof.confirmationBlock)}
                /\ UNCHANGED cache
           ELSE /\ cache' = storeFailure(cache, txHash, Str("signing error"),
                                         Num(now))
                /\ UNCHANGED attestations
        /\ monitors' = [monitors EXCEPT ![txHash].pc = "done",
                                        ![txHash].proof = undefined]
        /\ UNCHANGED <<now, chainHeight, mempool, receipts, broadcasts, lookups,
                       signer>>

\* GET /tx/:txHash up to its call of getTransactionReceipt; a record that is
\* neither missing nor in status broadcast is answered as it is.
getTx(txHash) ==
    LET cachedData == getTransaction(cache, txHash)
    IN  /\ txHash \notin lookups
        /\ lookups' = IF cachedData = undefined
                         \/ cachedData.status = Str("broadcast")
                      THEN lookups \cup {txHash} ELSE lookups
        /\ UNCHANGED <<cache, now, chainHeight, mempool, receipts, broadcasts,
                       monitors, attestations, signer>>

\* The receipt lookup of GET /tx/:txHash returns; an error counts as no receipt.
getTxReceipt(txHash, lookupError) ==
    LET receipt == IF lookupError THEN null ELSE getTransactionReceipt(txHash)
    IN  /\ txHash \in lookups
        /\ lookups' = lookups \ {txHash}
        /\ cache' = IF receipt # null
                    THEN storeConfirmation(cache, txHash, receipt.blockNumber,
                                           Num(now))
                    ELSE cache
        /\ UNCHANGED <<now, chainHeight, mempool, receipts, broadcasts, monitors,
                       attestations, signer>>

\* How GET /tx/:txHash/proof answers.
getTxProofOutcome(txHash) ==
    LET cachedData == getTransaction(cache, txHash)
    IN  IF cachedData = undefined THEN "404 Transaction not found in cache"
        ELSE IF cachedData.status # Str("confirmed")
            THEN "400 Transaction not confirmed yet"
        ELSE IF ~truthy(cachedData.broadcastBlock)
                   \/ ~truthy(cachedData.confirmationBlock)
            THEN "400 Incomplete transaction data for proof generation"
        ELSE IF signer = NoKey THEN "500 Failed to generate delay proof"
        ELSE "200"

\* Variant: the status of the record is not looked at.
getTxProofOfAnyStatus(txHash) ==
    LET cachedData == getTransaction(cache, txHash)
    IN  /\ IF /\ cachedData # undefined
              /\ truthy(cachedData.broadcastBlock)
              /\ truthy(cachedData.confirmationBlock)
              /\ signer # NoKey
           THEN attestations' = attestations \cup
                   {signDelayProof(txHash, cachedData.broadcastBlock,
                                   cachedData.confirmationBlock)}
           ELSE UNCHANGED attestations
        /\ UNCHANGED <<cache, now, chainHeight, mempool, receipts, broadcasts,
                       lookups, monitors, signer>>

getTxProof(txHash) ==
    LET cachedData == getTransaction(cache, txHash)
    IN  /\ IF getTxProofOutcome(txHash) = "200"
           THEN attestations' = attestations \cup
                   {signDelayProof(txHash, cachedData.broadcastBlock,
                                   cachedData.confirmationBlock)}
           ELSE UNCHANGED attestations
        /\ UNCHANGED <<cache, now, chainHeight, mempool, receipts, broadcasts,
                       lookups, monitors, signer>>

\* The callback of the cleanup interval.
cleanupInterval ==
    /\ cache' = cleanup(cache, now)
    /\ UNCHANGED <<now, chainHeight, mempool, receipts, broadcasts, lookups,
                   monitors, attestations, signer>>

\* Time passes.
tick ==
    /\ now < MaxTime
    /\ now' = now + 1
    /\ UNCHANGED <<cache, chainHeight, mempool, receipts, broadcasts, lookups,
                   monitors, attestations, signer>>

\* The network mines a block holding some of the transactions it accepted.
newBlock(included) ==
    /\ chainHeight < MaxChainHeight
    /\ chainHeight' = chainHeight + 1
    /\ mempool' = mempool \ included
    /\ receipts' = [t \in DOMAIN receipts \cup included |->
                       IF t \in included THEN chainHeight + 1 ELSE receipts[t]]
    /\ UNCHANGED <<cache, now, broadcasts, lookups, monitors, attestations, signer>>

\* The history of the step: a record that Map.set has created was first
\* written with the timestamp given to the store call, which is the one the
\* handler took for storeBroadcast, and Date.now() for storeConfirmation and
\* storeFailure; a record that Map.delete has removed is forgotten.
FirstWritten ==
    firstWrite' = [t \in DOMAIN cache' |->
                      IF t \in DOMAIN cache THEN firstWrite[t]
                      ELSE IF cache'[t].status = Str("broadcast")
                           THEN cache'[t].broadcastTimestamp.value
                           ELSE now]

\* A proxy with or without a usable signing key, next to a policy that stays
\* as it was deployed.
ProxyInit ==
    /\ constructor({"rpcProxy"}, {1}, {100}, {5000}, {1})
    /\ initialize({signerAddress, NoKey})

ProxyNext ==
    \/ /\ \E txHash \in PostedTxs : postTxBroadcast(txHash)
       /\ FirstWritten
       /\ UNCHANGED policyVars
    \/ /\ \E txHash \in PostedTxs, accepted \in BOOLEAN :
             postTxBroadcastSend(txHash, accepted)
       /\ FirstWritten
       /\ UNCHANGED policyVars
    \/ /\ \E txHash \in PostedTxs : postTxBroadcastStore(txHash)
       /\ FirstWritten
       /\ UNCHANGED policyVars
    \/ /\ \E txHash \in RawTxs : handleTransactionBroadcast(txHash)
       /\ FirstWritten
       /\ UNCHANGED policyVars
    \/ /\ \E txHash \in RawTxs, upstream \in ForwardResults :
             handleTransactionBroadcastForward(txHash, upstream)
       /\ FirstWritten
       /\ UNCHANGED policyVars
    \/ /\ \E txHash \in RawTxs : handleTransactionBroadcastStore(txHash)
       /\ FirstWritten
       /\ UNCHANGED policyVars
    \/ /\ \E txHash \in PostedTxs, pollError \in BOOLEAN :
             monitorTransaction(txHash, pollError)
       /\ FirstWritten
       /\ UNCHANGED policyVars
    \/ /\ \E txHash \in RawTxs, pollError \in BOOLEAN :
             monitorTransactionInBackground(txHash, pollError)
       /\ FirstWritten
       /\ UNCHANGED policyVars
    \/ /\ \E txHash \in RawTxs : monitorTransactionInBackgroundSigned(txHash)
       /\ FirstWritten
       /\ UNCHANGED policyVars
    \/ /\ \E txHash \in TxHashes : getTx(txHash)
       /\ FirstWritten
       /\ UNCHANGED policyVars
    \/ /\ \E txHash \in TxHashes, lookupError \in BOOLEAN :
             getTxReceipt(txHash, lookupError)
       /\ FirstWritten
       /\ UNCHANGED policyVars
    \/ /\ \E txHash \in TxHashes : getTxProof(txHash)
       /\ FirstWritten
       /\ UNCHANGED policyVars
    \/ /\ cleanupInterval
       /\ FirstWritten
       /\ UNCHANGED policyVars
    \/ /\ tick
       /\ FirstWritten
       /\ UNCHANGED policyVars
    \/ /\ \E included \in SUBSET mempool : newBlock(included)
       /\ FirstWritten
       /\ UNCHANGED policyVars

ProxySpec == ProxyInit /\ [][ProxyNext]_vars

\* The closure `monitor` of either monitor function runs, its poll answered
\* without an error; and the call of signDelayProof it made comes back.
monitor(txHash) ==
    /\ \/ monitorTransaction(txHash, FALSE)
       \/ monitorTransactionInBackground(txHash, FALSE)
       \/ monitorTransactionInBackgroundSigned(txHash)
    /\ FirstWritten
    /\ UNCHANGED policyVars

\* The proxy on a chain that answers every receipt poll of a monitor (no
\* getTransactionReceipt of a monitor throws).
AnsweredNext ==
    \/ /\ \E txHash \in PostedTxs : postTxBroadcast(txHash)
       /\ FirstWritten
       /\ UNCHANGED policyVars
    \/ /\ \E txHash \in PostedTxs, accepted \in BOOLEAN :
             postTxBroadcastSend(txHash, accepted)
       /\ FirstWritten
       /\ UNCHANGED policyVars
    \/ /\ \E txHash \in PostedTxs : postTxBroadcastStore(txHash)
       /\ FirstWritten
       /\ UNCHANGED policyVars
    \/ /\ \E txHash \in RawTxs : handleTransactionBroadcast(txHash)
       /\ FirstWritten
       /\ UNCHANGED policyVars
    \/ /\ \E txHash \in RawTxs, upstream \in ForwardResults :
             handleTransactionBroadcastForward(txHash, upstream)
       /\ FirstWritten
       /\ UNCHANGED policyVars
    \/ /\ \E txHash \in RawTxs : handleTransactionBroadcastStore(txHash)
       /\ FirstWritten
       /\ UNCHANGED policyVars
    \/ /\ \E txHash \in PostedTxs : monitorTransaction(txHash, FALSE)
       /\ FirstWritten
       /\ UNCHANGED policyVars
    \/ /\ \E txHash \in RawTxs : monitorTransactionInBackground(txHash, FALSE)
       /\ FirstWritten
       /\ UNCHANGED policyVars
    \/ /\ \E txHash \in RawTxs : monitorTransactionInBackgroundSigned(txHash)
       /\ FirstWritten
       /\ UNCHANGED policyVars
    \/ /\ \E txHash \in TxHashes : getTx(txHash)
       /\ FirstWritten
       /\ UNCHANGED policyVars
    \/ /\ \E txHash \in TxHashes, lookupError \in BOOLEAN :
             getTxReceipt(txHash, lookupError)
       /\ FirstWritten
       /\ UNCHANGED policyVars
    \/ /\ \E txHash \in TxHashes : getTxProof(txHash)
       /\ FirstWritten
       /\ UNCHANGED policyVars
    \/ /\ cleanupInterval
       /\ FirstWritten
       /\ UNCHANGED policyVars
    \/ /\ tick
       /\ FirstWritten
       /\ UNCHANGED policyVars
    \/ /\ \E included \in SUBSET mempool : newBlock(included)
       /\ FirstWritten
       /\ UNCHANGED policyVars

\* Timers fire and receipt polls are answered: a monitor that has a run
\* scheduled runs in the end, whatever the request handlers do meanwhile.
FairProxySpec ==
    /\ ProxyInit
    /\ [][AnsweredNext]_vars
    /\ \A txHash \in TxHashes : WF_vars(monitor(txHash))

----------------------------------------------------------------------------
(* Properties *)

\* C1: once a claim for a transaction has been paid, a further submission of a
\* claim for it (the same proof included) by any caller is rejected with
\* "Claim already processed", so it is a revert that leaves the pool, the fees,
\* the coverage and the processed set as they are; no payout is ever in
\* progress for a transaction already paid, and none is paid twice.
SecondSubmissionRejected ==
    /\ \A t \in TxHashes : claimApproved[t] <= 1
    /\ call.fn = "submitClaim" => claimApproved[call.proof.txHash] = 0
    /\ \A t \in TxHashes :
          (claimApproved[t] >= 1 /\ policyConfig.active /\ nonReentrant) =>
             \A sender \in Callers : \A proof \in ProofsOf[t] :
                submitClaimOutcome(sender, proof) = "Claim already processed"

\* A claim was paid, and its claimant still has coverage, the pool can pay
\* again and the policy is active: only the processed mark stands in the way.
PaidClaimantStillCovered ==
    /\ call = NoCall
    /\ policyConfig.active
    /\ rpcProxyAddress \in Signers
    /\ totalPool >= policyConfig.payoutPerIncident
    /\ \E t \in TxHashes : claimApproved[t] = 1
    /\ \E sender \in Callers :
          /\ userInsurance[sender].lastClaimBlock > 0
          /\ userInsurance[sender].incidentsRemaining > 0

\* C2: a processed mark that a paid claim left is never removed, a mark is left
\* by nothing but a claim that is paid, and after it no submission for that
\* transaction, by whichever caller and with whichever heights and signature,
\* goes on to pay: one ClaimApproved per transaction at most.
ProcessedOnlyByPaidClaimForGood ==
    /\ [](\A t \in TxHashes :
            LET Committed ==
                    /\ processedClaims[t]
                    /\ (call = NoCall \/ call.saved.processedClaims[t])
            IN  /\ claimApproved[t] <= 1
                /\ Committed <=> claimApproved[t] = 1
                /\ Committed =>
                      \A sender \in Callers : \A proof \in ProofsOf[t] :
                         submitClaimOutcome(sender, proof) # "ok")
    /\ [][\A t \in TxHashes :
            LET Committed ==
                    /\ processedClaims[t]
                    /\ (call = NoCall \/ call.saved.processedClaims[t])
            IN  /\ Committed => Committed'
                /\ (~Committed /\ Committed') =>
                      /\ call.fn = "submitClaim"
                      /\ call.proof.txHash = t
                      /\ call' = NoCall
                      /\ claimApproved'[t] = claimApproved[t] + 1]_vars

\* A transaction is marked for good while another caller than the one paid
\* holds coverage and the pool can pay.
MarkedWhileOtherClaimantCovered ==
    /\ call = NoCall
    /\ \E t \in TxHashes : processedClaims[t]
    /\ totalPool >= policyConfig.payoutPerIncident
    /\ \E paid \in Callers, other \in Callers :
          /\ paid # other
          /\ userInsurance[paid].lastClaimBlock > 0
          /\ userInsurance[other].lastClaimBlock = 0
          /\ userInsurance[other].incidentsRemaining > 0

\* C3: a claim goes on to pay only when its signature was made by the attester
\* registered when the claim is submitted, over exactly the claim's
\* (txHash, broadcastBlock, confirmationBlock): with a signature of any other
\* key, or over a tuple differing in any one field, or malformed, the call
\* reverts before the processed mark, so it pays nothing and changes nothing.
PaysOnlyOnAttestedTuple ==
    /\ call.fn = "submitClaim" =>
          call.proof.rpcSignature =
             Sign(call.saved.rpcProxyAddress,
                  toEthSignedMessageHash(
                     PackedDigest(call.proof.txHash, call.proof.broadcastBlock,
                                  call.proof.confirmationBlock)))
    /\ \A sender \in Callers, proof \in ClaimProofs :
          (\/ proof.rpcSignature.signer # rpcProxyAddress
           \/ proof.rpcSignature.signed # ProofDigest(proof)) =>
             ClaimRevertReason(sender, proof) # "ok"

\* A claim attested by the key the owner registered is being paid while
\* the other key is a signer of proofs as well.
AttestedClaimBeingPaid ==
    /\ call.fn = "submitClaim"
    /\ call.saved.rpcProxyAddress = "newRpcProxy"
    /\ call.proof.rpcSignature.signer = "newRpcProxy"
    /\ call.proof.broadcastBlock = 1

\* C4: the threshold is strict. For a claim that passes every other check and
\* that the pool can pay, a delay equal to delayThreshold is rejected with
\* "Delay not sufficient for claim" and a delay of delayThreshold + 1 goes on
\* to pay; the delay of a claim being paid exceeds the threshold in force
\* when it was submitted.
ThresholdIsStrict ==
    /\ call.fn = "submitClaim" =>
          call.proof.confirmationBlock - call.proof.broadcastBlock
             > call.saved.policyConfig.delayThreshold
    /\ \A sender \in Callers, t \in TxHashes :
          (/\ nonReentrant
           /\ policyConfig.active
           /\ ~processedClaims[t]
           /\ userInsurance[sender].incidentsRemaining > 0
           /\ totalPool >= policyConfig.payoutPerIncident) =>
             \A proof \in ProofsOf[t] :
                LET delay == proof.confirmationBlock - proof.broadcastBlock
                IN  proof.rpcSignature = Sign(rpcProxyAddress, ProofDigest(proof)) =>
                      /\ delay = policyConfig.delayThreshold =>
                            submitClaimOutcome(sender, proof) =
                               "Delay not sufficient for claim"
                      /\ delay = policyConfig.delayThreshold + 1 =>
                            submitClaimOutcome(sender, proof) = "ok"

\* A claim whose delay is one above a threshold of 2 is being paid.
ClaimOneAboveThresholdBeingPaid ==
    /\ call.fn = "submitClaim"
    /\ call.saved.policyConfig.delayThreshold = 2
    /\ call.proof.confirmationBlock - call.proof.broadcastBlock = 3

\* C5: a claim that passes every check while totalPool < payoutPerIncident fails
\* with "Insufficient pool funds" and leaves no trace: from such a state no
\* step marks a transaction, lowers anyone's coverage, sets a lastClaimBlock or
\* lowers the pool, and a mark exists only for a claim paid or being paid. The
\* same claim goes on to pay once totalPool >= payoutPerIncident.
InsufficientPoolLeavesNoTrace ==
    /\ [](/\ \A t \in TxHashes :
                processedClaims[t] =>
                   \/ claimApproved[t] = 1
                   \/ call.fn = "submitClaim" /\ call.proof.txHash = t
          /\ call.fn = "submitClaim" => call.saved.totalPool >= call.value
          /\ \A sender \in Callers, t \in TxHashes :
                (/\ nonReentrant
                 /\ policyConfig.active
                 /\ ~processedClaims[t]
                 /\ userInsurance[sender].incidentsRemaining > 0) =>
                   \A proof \in ProofsOf[t] :
                      ClaimRevertReason(sender, proof) = "ok" =>
                         submitClaimOutcome(sender, proof) =
                            IF totalPool < policyConfig.payoutPerIncident
                            THEN "Insufficient pool funds" ELSE "ok")
    /\ [][(call = NoCall /\ totalPool < policyConfig.payoutPerIncident) =>
             /\ processedClaims' = processedClaims
             /\ totalPool' >= totalPool
             /\ \A a \in Callers :
                   /\ userInsurance'[a].incidentsRemaining
                         >= userInsurance[a].incidentsRemaining
                   /\ userInsurance'[a].lastClaimBlock
                         = userInsurance[a].lastClaimBlock]_vars

\* A caller with coverage holds a fully valid claim while the pool cannot pay.
ValidClaimWhilePoolShort ==
    /\ call = NoCall
    /\ totalPool < policyConfig.payoutPerIncident
    /\ \E sender \in Callers, t \in TxHashes :
          /\ userInsurance[sender].incidentsRemaining > 0
          /\ \E proof \in ProofsOf[t] : ClaimRevertReason(sender, proof) = "ok"

\* C6: the step by which a submitClaim goes on to pay changes exactly this:
\* the caller's incidentsRemaining is one less, the caller's lastClaimBlock is
\* the current block, totalPool is less by payoutPerIncident, the transaction
\* is added to the processed claims and payoutPerIncident moves from the
\* policy to the caller; totalProtocolFees, the configuration, the attester,
\* the caller's deposit and every other address are as before. The return of
\* the transfer changes none of that, and a claimant who is neither the owner
\* nor the factory cannot have anything else changed meanwhile.
SuccessfulClaimEffects ==
    /\ [](call.fn = "submitClaim" /\ call.to \in Users =>
             /\ policyConfig = call.saved.policyConfig
             /\ rpcProxyAddress = call.saved.rpcProxyAddress
             /\ totalProtocolFees = call.saved.totalProtocolFees
             /\ \A a \in Callers \ {call.to} :
                   /\ userInsurance[a] = call.saved.userInsurance[a]
                   /\ balance[a] = call.saved.balance[a])
    /\ [][/\ (call = NoCall /\ call' # NoCall /\ call'.fn = "submitClaim") =>
               \E caller \in Callers, t \in TxHashes :
                  /\ caller = call'.to
                  /\ t = call'.proof.txHash
                  /\ call'.value = policyConfig.payoutPerIncident
                  /\ userInsurance' = [userInsurance EXCEPT
                        ![caller].incidentsRemaining = @ - 1,
                        ![caller].lastClaimBlock = blockNumber]
                  /\ userInsurance[caller].incidentsRemaining >= 1
                  /\ totalPool' = totalPool - policyConfig.payoutPerIncident
                  /\ totalPool' >= 0
                  /\ ~processedClaims[t]
                  /\ processedClaims' = [processedClaims EXCEPT ![t] = TRUE]
                  /\ balance' = [balance EXCEPT
                        ![PolicyAddress] = @ - policyConfig.payoutPerIncident,
                        ![caller] = @ + policyConfig.payoutPerIncident]
                  /\ UNCHANGED <<totalProtocolFees, policyConfig, rpcProxyAddress,
                                 blockNumber>>
          /\ (call.fn = "submitClaim" /\ call' = NoCall
              /\ claimApproved' # claimApproved) =>
                UNCHANGED <<storage, balance>>]_vars

\* A claim was paid in the latest block to a caller who keeps one incident of
\* coverage, while protocol fees are held and another caller holds coverage.
ClaimPaidInLatestBlock ==
    /\ call = NoCall
    /\ totalProtocolFees > 0
    /\ \E t \in TxHashes : claimApproved[t] = 1
    /\ \E caller \in Callers, other \in Callers :
          /\ caller # other
          /\ userInsurance[caller].lastClaimBlock = MaxBlock
          /\ userInsurance[caller].incidentsRemaining = 1
          /\ userInsurance[other].incidentsRemaining > 0

\* C7: while the payout of a claim is being transferred, the transaction is
\* already marked processed and the caller's incidentsRemaining, the caller's
\* lastClaimBlock and totalPool already have their new values.
EffectsBeforeTransfer ==
    call.fn = "submitClaim" =>
       /\ processedClaims[call.proof.txHash]
       /\ ~call.saved.processedClaims[call.proof.txHash]
       /\ userInsurance[call.to].incidentsRemaining =
             call.saved.userInsurance[call.to].incidentsRemaining - 1
       /\ userInsurance[call.to].lastClaimBlock = blockNumber
       /\ totalPool = call.saved.totalPool - call.value

\* The payout of a caller's last incident, which drains the pool, is in flight.
LastPayoutInFlight ==
    /\ call.fn = "submitClaim"
    /\ userInsurance[call.to].incidentsRemaining = 0
    /\ call.saved.totalPool = call.value
    /\ totalPool = 0

\* C8: while the transfer of submitClaim or withdrawProtocolFees is in flight
\* the lock is held, so a call by the recipient into submitClaim or
\* purchaseShare fails on the lock and one into withdrawProtocolFees fails on
\* the lock (or, for a recipient other than the owner, on the owner check);
\* the policy has paid out the one transfer and no more, with the pool and the
\* fees not lowered again; the lock is free whenever no transfer is in flight.
ReentrantCallsFail ==
    /\ call = NoCall <=> guardStatus = NOT_ENTERED
    /\ call # NoCall =>
          /\ call.fn \in {"submitClaim", "withdrawProtocolFees"}
          /\ \A proof \in ClaimProofs :
                submitClaimOutcome(call.to, proof) = "ReentrancyGuardReentrantCall"
          /\ \A value \in 0..balance[call.to] :
                purchaseShareOutcome(call.to, value) = "ReentrancyGuardReentrantCall"
          /\ withdrawProtocolFeesOutcome(call.to) =
                IF call.to = owner THEN "ReentrancyGuardReentrantCall"
                ELSE "OwnableUnauthorizedAccount"
          /\ balance[PolicyAddress] = call.saved.balance[PolicyAddress] - call.value
          /\ balance[call.to] = call.saved.balance[call.to] + call.value
          /\ totalPool + totalProtocolFees =
                call.saved.totalPool + call.saved.totalProtocolFees - call.value
          /\ \A t \in TxHashes :
                processedClaims[t] /\ ~call.saved.processedClaims[t] =>
                   call.fn = "submitClaim" /\ call.proof.txHash = t

\* A payout is in flight to a recipient who still has coverage, with a pool
\* that could pay again, an active policy and a transaction not yet claimed:
\* a nested claim would pay but for the lock.
NestedClaimWouldPay ==
    /\ call.fn = "submitClaim"
    /\ policyConfig.active
    /\ userInsurance[call.to].incidentsRemaining > 0
    /\ totalPool >= policyConfig.payoutPerIncident
    /\ \E proof \in ClaimProofs :
          /\ ~processedClaims[proof.txHash]
          /\ DelaySufficient(proof)
          /\ SignedByRpcProxy(proof)

\* C9: when the transfer of a payout fails, the whole submitClaim fails: the
\* processed claims (the claimed transaction not among them), everyone's
\* coverage and lastClaimBlock, the pool, the fees and the balances are what
\* they were before the call, no ClaimApproved is logged, the lock is free,
\* and the same proof submitted again by the same caller goes on to pay.
FailedTransferUndoesClaim ==
    [][(call.fn = "submitClaim" /\ call' = NoCall) =>
          \/ /\ claimApproved' # claimApproved
             /\ UNCHANGED <<storage, balance>>
          \/ /\ claimApproved' = claimApproved
             /\ processedClaims' = call.saved.processedClaims
             /\ ~processedClaims'[call.proof.txHash]
             /\ userInsurance' = call.saved.userInsurance
             /\ totalPool' = call.saved.totalPool
             /\ totalProtocolFees' = call.saved.totalProtocolFees
             /\ balance' = call.saved.balance
             /\ guardStatus' = NOT_ENTERED
             /\ \E caller \in Callers, proof \in ProofsOf[call.proof.txHash] :
                   /\ caller = call.to
                   /\ proof = call.proof
                   /\ submitClaimOutcome(caller, proof)' = "ok"]_vars

\* The payout of a claim is in flight after the recipient, the owner, has
\* changed the attester during the transfer: a failure has to undo both.
PayoutInFlightAfterNestedChange ==
    /\ call.fn = "submitClaim"
    /\ call.to = owner
    /\ rpcProxyAddress # call.saved.rpcProxyAddress
    /\ totalPool < call.saved.totalPool

\* C10: the rejection reason of submitClaim is the one of the first violated
\* precondition in the order: policy active ("Policy not active"), transaction
\* not processed ("Claim already processed"), caller has incidentsRemaining > 0
\* ("No incidents remaining"), confirmationBlock - broadcastBlock above the
\* threshold ("Delay not sufficient for claim"), signature by the attester
\* ("Invalid RPC signature").
RejectionReasonIsFirstViolated ==
    \A sender \in Callers, proof \in ClaimProofs :
       ClaimRevertReason(sender, proof) =
          IF ~policyConfig.active THEN "Policy not active"
          ELSE IF processedClaims[proof.txHash] THEN "Claim already processed"
          ELSE IF ~(userInsurance[sender].incidentsRemaining > 0)
              THEN "No incidents remaining"
          ELSE IF ~(proof.confirmationBlock - proof.broadcastBlock
                       > policyConfig.delayThreshold)
              THEN "Delay not sufficient for claim"
          ELSE IF proof.rpcSignature #
                     Sign(rpcProxyAddress, ProofDigest(proof))
              THEN "Invalid RPC signature"
          ELSE "ok"

\* C11: with the policy active, the transaction unprocessed and the caller
\* covered, a claim whose confirmationBlock minus broadcastBlock is not
\* greater than delayThreshold is rejected with "Delay not sufficient for
\* claim", for every pair of heights, confirmationBlock < broadcastBlock
\* included.
InsufficientDelayReason ==
    \A sender \in Callers, proof \in ClaimProofs :
       (/\ nonReentrant
        /\ policyConfig.active
        /\ ~processedClaims[proof.txHash]
        /\ userInsurance[sender].incidentsRemaining > 0
        /\ proof.confirmationBlock - proof.broadcastBlock
              <= policyConfig.delayThreshold) =>
          submitClaimOutcome(sender, proof) = "Delay not sufficient for claim"

\* C12: a successful purchaseShare of value v changes exactly this: the
\* caller's ethDeposited grows by v and incidentsRemaining by
\* floor(v / payoutPerIncident), totalProtocolFees grows by
\* fee = floor(v * protocolFeePercentage / 10000) and totalPool by v - fee, and
\* v moves from the caller to the policy; so fee and pool share add up to v, and
\* the policy's balance is always totalPool + totalProtocolFees.
PurchaseSplitsDeposit ==
    /\ [](balance[PolicyAddress] = totalPool + totalProtocolFees)
    /\ [][\A a \in Callers :
            (call' = call
             /\ userInsurance'[a].ethDeposited # userInsurance[a].ethDeposited) =>
               \E v \in 1..balance[a] : \E fee \in 0..v, covered \in 0..v :
                  /\ fee * BASIS_POINTS <= v * policyConfig.protocolFeePercentage
                  /\ v * policyConfig.protocolFeePercentage < (fee + 1) * BASIS_POINTS
                  /\ covered * policyConfig.payoutPerIncident <= v
                  /\ v < (covered + 1) * policyConfig.payoutPerIncident
                  /\ userInsurance' = [userInsurance EXCEPT
                        ![a].ethDeposited = @ + v,
                        ![a].incidentsRemaining = @ + covered]
                  /\ totalProtocolFees' = totalProtocolFees + fee
                  /\ totalPool' = totalPool + (v - fee)
                  /\ (totalPool' - totalPool)
                        + (totalProtocolFees' - totalProtocolFees) = v
                  /\ balance' = [balance EXCEPT ![a] = @ - v,
                                                ![PolicyAddress] = @ + v]
                  /\ UNCHANGED <<policyConfig, rpcProxyAddress, processedClaims,
                                 blockNumber>>]_vars

\* A deposit of 2 was split into a fee of 1 and a pool share of 1 and bought
\* one incident at a payout of 2.
DepositSplitInTwo ==
    /\ call = NoCall
    /\ policyConfig.payoutPerIncident = 2
    /\ totalPool = 1
    /\ totalProtocolFees = 1
    /\ \E a \in Callers :
          /\ userInsurance[a].ethDeposited = 2
          /\ userInsurance[a].incidentsRemaining = 1

\* C13: a rejected purchaseShare or submitClaim changes nothing. Between
\* transactions every step that changes totalPool, totalProtocolFees, anyone's
\* coverage or the processed claims is the step of a purchaseShare, a
\* submitClaim or a withdrawProtocolFees whose checks all pass in the state it
\* starts from; while the policy is inactive no step changes the pool, the
\* coverage or the processed claims; a deposit of zero or one that buys no
\* incident is never credited; and the configuration changes only by the
\* owner's or the factory's own operations.
RejectedOperationsChangeNothing ==
    [][call = NoCall =>
          /\ <<totalPool, totalProtocolFees, userInsurance, processedClaims>>'
                # <<totalPool, totalProtocolFees, userInsurance, processedClaims>> =>
                \/ /\ call' = NoCall
                   /\ \E a \in Callers : \E v \in 1..balance[a] :
                         /\ balance'[a] = balance[a] - v
                         /\ purchaseShareOutcome(a, v) = "ok"
                         /\ v >= policyConfig.payoutPerIncident
                         /\ userInsurance'[a].incidentsRemaining
                               > userInsurance[a].incidentsRemaining
                         /\ \A b \in Callers \ {a} :
                               userInsurance'[b] = userInsurance[b]
                   /\ UNCHANGED <<processedClaims, policyConfig>>
                \/ /\ call' # NoCall
                   /\ call'.fn = "submitClaim"
                   /\ \E a \in Callers, proof \in ProofsOf[call'.proof.txHash] :
                         /\ a = call'.to
                         /\ proof = call'.proof
                         /\ submitClaimOutcome(a, proof) = "ok"
                   /\ UNCHANGED policyConfig
                \/ /\ call' # NoCall
                   /\ call'.fn = "withdrawProtocolFees"
                   /\ withdrawProtocolFeesOutcome(owner) = "ok"
                   /\ UNCHANGED policyConfig
          /\ ~policyConfig.active =>
                UNCHANGED <<totalPool, userInsurance, processedClaims>>
          /\ policyConfig' # policyConfig =>
                UNCHANGED <<totalPool, totalProtocolFees, userInsurance,
                            processedClaims, balance, call>>]_vars

\* An active, funded policy where a deposit of 1 is too small for any coverage
\* and a covered caller holds a claim that is rejected for its delay.
RejectionsPossible ==
    /\ call = NoCall
    /\ policyConfig.active
    /\ totalPool > 0
    /\ \E a \in Callers :
          /\ balance[a] >= 1
          /\ purchaseShareOutcome(a, 1) = "ETH amount too small for coverage"
    /\ \E a \in Callers, proof \in ClaimProofs :
          /\ userInsurance[a].incidentsRemaining > 0
          /\ submitClaimOutcome(a, proof) = "Delay not sufficient for claim"

\* C14: for an amount v > 0 and an active policy getShareQuote returns
\* incidentsCovered = floor(v / payoutPerIncident) and
\* premium = floor(totalPool * premiumPercentage / 10000); for
\* v = k * payoutPerIncident with k >= 1 it returns incidentsCovered = k; and a
\* purchaseShare of v credits exactly the incidentsCovered quoted for v in the
\* state it starts from.
QuoteIsFloorAndCredited ==
    /\ [](\A v \in 1..MaxQuoted :
             getShareQuoteOutcome(v) = "ok" =>
                LET quote == getShareQuote(v)
                IN  /\ quote.incidentsCovered \in 0..v
                    /\ quote.incidentsCovered * policyConfig.payoutPerIncident <= v
                    /\ v < (quote.incidentsCovered + 1)
                              * policyConfig.payoutPerIncident
                    /\ quote.premium \in 0..totalPool
                    /\ quote.premium * BASIS_POINTS
                          <= totalPool * policyConfig.premiumPercentage
                    /\ totalPool * policyConfig.premiumPercentage
                          < (quote.premium + 1) * BASIS_POINTS
                    /\ \A k \in 1..MaxQuoted :
                          v = k * policyConfig.payoutPerIncident =>
                             quote.incidentsCovered = k)
    /\ [][\A a \in Callers :
            (call' = call
             /\ userInsurance'[a].ethDeposited # userInsurance[a].ethDeposited) =>
               \E v \in 1..balance[a] :
                  /\ v = userInsurance'[a].ethDeposited
                            - userInsurance[a].ethDeposited
                  /\ getShareQuoteOutcome(v) = "ok"
                  /\ userInsurance'[a].incidentsRemaining =
                        userInsurance[a].incidentsRemaining
                           + getShareQuote(v).incidentsCovered]_vars

\* The quoted premium is not zero while a caller was credited the two
\* incidents quoted for twice the payout.
QuotedTwoIncidentsCredited ==
    /\ call = NoCall
    /\ policyConfig.active
    /\ policyConfig.payoutPerIncident = 1
    /\ getShareQuote(2).premium > 0
    /\ \E a \in Callers :
          /\ userInsurance[a].ethDeposited = 2
          /\ userInsurance[a].incidentsRemaining = 2

\* C15: totalPool gets smaller only at the step by which a submitClaim that
\* passes every check pays, and then by exactly payoutPerIncident, which goes
\* to the claimant; totalProtocolFees gets smaller only at the step by which a
\* withdrawProtocolFees pays, which only the owner can make succeed and which
\* sends the fees and no more, leaving totalPool as it is.
PoolLeavesOnlyByPayout ==
    [][/\ totalPool' < totalPool =>
             /\ call = NoCall
             /\ call' # NoCall
             /\ call'.fn = "submitClaim"
             /\ totalPool - totalPool' = policyConfig.payoutPerIncident
             /\ call'.value = policyConfig.payoutPerIncident
             /\ totalProtocolFees' = totalProtocolFees
             /\ \E a \in Callers, proof \in ProofsOf[call'.proof.txHash] :
                   /\ a = call'.to
                   /\ proof = call'.proof
                   /\ submitClaimOutcome(a, proof) = "ok"
                   /\ a # PolicyAddress
                   /\ balance'[a] = balance[a] + policyConfig.payoutPerIncident
       /\ totalProtocolFees' < totalProtocolFees =>
             /\ call = NoCall
             /\ call' # NoCall
             /\ call'.fn = "withdrawProtocolFees"
             /\ call'.to = owner
             /\ call'.value = totalProtocolFees
             /\ totalProtocolFees' = 0
             /\ totalPool' = totalPool
             /\ balance'[PolicyAddress] = balance[PolicyAddress] - totalProtocolFees
             /\ \A sender \in Callers :
                   withdrawProtocolFeesOutcome(sender) = "ok" => sender = owner]_vars

\* A claim was paid from the pool and the owner has withdrawn the fees, the
\* pool still holding funds.
PaidAndWithdrawn ==
    /\ call = NoCall
    /\ \E t \in TxHashes : claimApproved[t] = 1
    /\ balance[owner] > 0
    /\ userInsurance[owner].ethDeposited = 0
    /\ totalProtocolFees = 0
    /\ totalPool > 0

\* C16: each purchase pays the premium that getShareQuote returns for it, the
\* configured percentage of the funds in the pool, and that payment depletes
\* the pool: after a purchase of v the pool holds what it held, plus the pool
\* share of v, less the premium.
PurchasePaysPremium ==
    [][\A a \in Callers :
          (call' = call
           /\ userInsurance'[a].ethDeposited # userInsurance[a].ethDeposited) =>
             \E v \in 1..balance[a] :
                /\ v = userInsurance'[a].ethDeposited - userInsurance[a].ethDeposited
                /\ totalPool' =
                      totalPool
                      + (v - (v * policyConfig.protocolFeePercentage)
                                \div BASIS_POINTS)
                      - getShareQuote(v).premium]_vars

\* C17: configurePolicyParams, setRpcProxyAddress, withdrawProtocolFees and
\* togglePolicyStatus succeed for no caller but the owner.
OnlyOwnerOperates ==
    \A sender \in Callers \ {owner} :
       /\ \A d \in DelayThresholds, pr \in PremiumPercentages,
             f \in ProtocolFeePercentages, p \in PayoutsPerIncident :
             configurePolicyParamsOutcome(sender, d, pr, f, p) # "ok"
       /\ \A a \in Signers : setRpcProxyAddressOutcome(sender, a) # "ok"
       /\ withdrawProtocolFeesOutcome(sender) # "ok"
       /\ togglePolicyStatusOutcome(sender) # "ok"

\* C18: in every state, from construction on, delayThreshold > 0,
\* payoutPerIncident > 0, premiumPercentage <= 10000 and
\* protocolFeePercentage <= 10000; a configurePolicyParams by the owner with
\* a zero threshold, a zero payout or a percentage above 10000 is rejected, so
\* the configuration in place stays.
ConfigurationStaysValid ==
    /\ policyConfig.delayThreshold > 0
    /\ policyConfig.payoutPerIncident > 0
    /\ policyConfig.premiumPercentage <= BASIS_POINTS
    /\ policyConfig.protocolFeePercentage <= BASIS_POINTS
    /\ \A d \in DelayThresholds \cup {0},
          pr \in PremiumPercentages \cup {BASIS_POINTS + 1},
          f \in ProtocolFeePercentages \cup {BASIS_POINTS + 1},
          p \in PayoutsPerIncident \cup {0} :
          configurePolicyParamsOutcome(owner, d, pr, f, p) = "ok" <=>
             (d > 0 /\ p > 0 /\ pr <= BASIS_POINTS /\ f <= BASIS_POINTS)

\* The owner has set another delay threshold while a transfer is in flight.
ReconfiguredDuringTransfer ==
    /\ call # NoCall
    /\ call.saved.policyConfig.delayThreshold # policyConfig.delayThreshold

\* C19: in every state, from construction on, the registered attester address
\* is not the zero address.
AttesterNeverZero == rpcProxyAddress # ZeroAddress

\* C20: withdrawProtocolFees by the owner is rejected with "No fees to
\* withdraw" when totalProtocolFees is 0 and otherwise sends exactly
\* totalProtocolFees to the owner and sets totalProtocolFees to 0, leaving
\* totalPool, everyone's coverage and the processed claims as they are; when
\* the transfer fails, totalProtocolFees and the balances are what they were
\* before the call.
WithdrawalPaysFeesToOwner ==
    /\ [](nonReentrant =>
             withdrawProtocolFeesOutcome(owner) =
                IF totalProtocolFees = 0 THEN "No fees to withdraw" ELSE "ok")
    /\ [][/\ (call = NoCall /\ call' # NoCall
              /\ call'.fn = "withdrawProtocolFees") =>
                /\ totalProtocolFees > 0
                /\ call'.to = owner
                /\ call'.value = totalProtocolFees
                /\ totalProtocolFees' = 0
                /\ balance' = [balance EXCEPT
                      ![PolicyAddress] = @ - totalProtocolFees,
                      ![owner] = @ + totalProtocolFees]
                /\ UNCHANGED <<totalPool, userInsurance, processedClaims,
                               policyConfig, rpcProxyAddress>>
          /\ (call.fn = "withdrawProtocolFees" /\ call' = NoCall) =>
                /\ UNCHANGED <<totalPool, userInsurance, processedClaims>>
                /\ \/ /\ totalProtocolFees' = 0
                      /\ balance' = balance
                      /\ balance'[owner] = call.saved.balance[owner] + call.value
                   \/ /\ totalProtocolFees' = call.saved.totalProtocolFees
                      /\ totalProtocolFees' = call.value
                      /\ balance' = call.saved.balance]_vars

\* Fees of 1 are in flight to the owner while the pool holds funds and a claim
\* has been paid.
FeesInFlight ==
    /\ call.fn = "withdrawProtocolFees"
    /\ call.value = 1
    /\ totalPool > 0
    /\ \E t \in TxHashes : processedClaims[t]

\* C21: a claim (caller, txHash, broadcastBlock, confirmationBlock, signature)
\* that is rejected for the signature, the delay, the processed mark or the
\* missing coverage is rejected after every further step as well: no step
\* leads from a state where it is so rejected to one where it goes on to pay.
ProtocolRejectionsPermanent ==
    [][\A sender \in Callers, proof \in ClaimProofs :
          submitClaimOutcome(sender, proof) \in
             {"Claim already processed", "No incidents remaining", "Panic(0x11)",
              "Delay not sufficient for claim", "ECDSAInvalidSignature",
              "Invalid RPC signature"} =>
             submitClaimOutcome(sender, proof)' # "ok"]_vars

\* C22: a coverage record is changed only by its holder's purchases and paid
\* claims. Outside the step that undoes a failed transaction (which puts every
\* record back to what it was before that transaction), ethDeposited never
\* decreases and grows only by the value its holder pays in with a purchase;
\* incidentsRemaining grows only in such a purchase and decreases only by
\* exactly 1, in the step that pays a claim to its holder, and every paid claim
\* takes exactly 1; a step that changes the configuration, the attester or the
\* fees, or that changes another holder's record, leaves the record as it is;
\* incidentsRemaining is never below 0.
CoverageChangedOnlyByHolder ==
    /\ [](\A a \in Callers : userInsurance[a].incidentsRemaining >= 0)
    /\ [][IF call # NoCall /\ call' = NoCall
          THEN userInsurance' \in {userInsurance, call.saved.userInsurance}
          ELSE /\ \A a \in Callers :
                   LET before == userInsurance[a]
                       after == userInsurance'[a]
                       claimPaid == /\ call = NoCall /\ call' # NoCall
                                    /\ call'.fn = "submitClaim" /\ call'.to = a
                       purchased == /\ call' = call
                                    /\ after.ethDeposited > before.ethDeposited
                                    /\ balance'[a] = balance[a]
                                          - (after.ethDeposited - before.ethDeposited)
                   IN  /\ after.ethDeposited >= before.ethDeposited
                       /\ after.ethDeposited > before.ethDeposited => purchased
                       /\ after.incidentsRemaining > before.incidentsRemaining
                             => purchased
                       /\ after.incidentsRemaining < before.incidentsRemaining
                             => claimPaid
                       /\ claimPaid =>
                             /\ after.incidentsRemaining = before.incidentsRemaining - 1
                             /\ after.ethDeposited = before.ethDeposited
                       /\ after # before =>
                             /\ \A b \in Callers \ {a} :
                                   userInsurance'[b] = userInsurance[b]
                             /\ policyConfig' = policyConfig
                             /\ rpcProxyAddress' = rpcProxyAddress
                             /\ totalProtocolFees' >= totalProtocolFees]_vars

\* Both users hold coverage, user1 has been paid one claim out of two incidents,
\* and the owner has since switched the policy off.
CoverageUsedByOneHolder ==
    /\ call = NoCall
    /\ claimApproved["tx1"] = 1
    /\ userInsurance["user1"].ethDeposited = 2
    /\ userInsurance["user1"].incidentsRemaining = 1
    /\ userInsurance["user2"].incidentsRemaining = 1
    /\ ~policyConfig.active

\* C23: on both broadcast paths the block number stored as broadcastBlock is
\* the one the handler read before the transaction was forwarded: when the
\* network accepts the transaction the request already holds it, it is at most
\* the chain's height then, and it is what storeBroadcast is given afterwards.
\* With the chain only growing, every record of the cache that holds both a
\* broadcastBlock and a confirmationBlock has confirmationBlock >= broadcastBlock.
HeightReadBeforeForward ==
    /\ [](\A t \in DOMAIN cache :
             cache[t].broadcastBlock.type = "number"
                /\ cache[t].confirmationBlock.type = "number"
             => cache[t].confirmationBlock.value >= cache[t].broadcastBlock.value)
    /\ [][/\ chainHeight' >= chainHeight
          /\ \A t \in TxHashes :
               /\ t \notin mempool /\ t \in mempool' =>
                     /\ broadcasts[t].broadcastBlock.type = "number"
                     /\ broadcasts[t].broadcastBlock.value <= chainHeight
                     /\ broadcasts'[t].broadcastBlock = broadcasts[t].broadcastBlock
               /\ broadcasts[t].pc = "store" /\ broadcasts'[t].pc = "idle" =>
                     cache'[t].broadcastBlock = broadcasts[t].broadcastBlock]_vars

\* Both paths have a record with both heights: one confirmed a block after its
\* broadcast, the other two blocks after.
BothPathsConfirmedLater ==
    /\ DOMAIN cache = TxHashes
    /\ cache["tx1"].broadcastBlock = Num(1)
    /\ cache["tx1"].confirmationBlock = Num(2)
    /\ cache["tx2"].broadcastBlock = Num(0)
    /\ cache["tx2"].confirmationBlock = Num(2)

\* C24: with a signing key, signDelayProof(txHash, a, b) followed by
\* verifyDelayProof of the proof it returned is true, for every transaction and
\* every pair of heights, and so it is for every proof the proxy has issued;
\* with any one of txHash, broadcastBlock and confirmationBlock of the proof
\* changed afterwards verifyDelayProof is false; and for a proof whose
\* signature is malformed verifyDelayProof is false (it does not throw),
\* with or without a key.
SignThenVerify ==
    LET BlockNumbers == {Num(h) : h \in 0..MaxChainHeight}
    IN  /\ \A p \in attestations : verifyDelayProof(p)
        /\ \A t \in TxHashes, a \in BlockNumbers, b \in BlockNumbers :
              /\ ~verifyDelayProof([txHash |-> t, broadcastBlock |-> a,
                                    confirmationBlock |-> b,
                                    signature |-> MalformedSignature])
              /\ signer # NoKey =>
                   LET proof == signDelayProof(t, a, b)
                   IN  /\ verifyDelayProof(proof)
                       /\ \A t2 \in TxHashes \ {t} :
                             ~verifyDelayProof([proof EXCEPT !.txHash = t2])
                       /\ \A a2 \in BlockNumbers \ {a} :
                             ~verifyDelayProof([proof EXCEPT !.broadcastBlock = a2])
                       /\ \A b2 \in BlockNumbers \ {b} :
                             ~verifyDelayProof([proof EXCEPT !.confirmationBlock = b2])

\* The proxy has signed a proof for each of the two transactions, and each
\* verifies.
ProofsIssuedVerify ==
    /\ \E p \in attestations : p.txHash = "tx1" /\ verifyDelayProof(p)
    /\ \E p \in attestations : p.txHash = "tx2" /\ verifyDelayProof(p)

\* C25: GET /tx/:txHash/proof answers 404 for a transaction without a record,
\* 400 for a record that is not confirmed and for a confirmed record without a
\* broadcastBlock, and signs only when the record is confirmed and holds both
\* heights; the proof it then signs is over exactly the record's txHash,
\* broadcastBlock and confirmationBlock, and in every other case the request
\* signs nothing.
ProofOnlyForConfirmedRecord ==
    /\ [](\A t \in TxHashes :
             LET cachedData == getTransaction(cache, t)
                 outcome == getTxProofOutcome(t)
             IN  /\ cachedData = undefined
                       <=> outcome = "404 Transaction not found in cache"
                 /\ cachedData # undefined /\ cachedData.status # Str("confirmed")
                       => outcome = "400 Transaction not confirmed yet"
                 /\ cachedData # undefined /\ cachedData.status = Str("confirmed")
                       /\ cachedData.broadcastBlock = undefined
                       => outcome = "400 Incomplete transaction data for proof generation"
                 /\ outcome = "200" =>
                       /\ cachedData.status = Str("confirmed")
                       /\ cachedData.broadcastBlock.type = "number"
                       /\ cachedData.confirmationBlock.type = "number")
    /\ [][attestations' # attestations /\ monitors' = monitors =>
             \E t \in TxHashes :
                /\ getTxProofOutcome(t) = "200"
                /\ attestations' = attestations \cup
                      {[txHash |-> t,
                        broadcastBlock |-> cache[t].broadcastBlock,
                        confirmationBlock |-> cache[t].confirmationBlock,
                        signature |-> Sign(signer, toEthSignedMessageHash(
                            PackedDigest(t, cache[t].broadcastBlock.value,
                                         cache[t].confirmationBlock.value))),
                        signer |-> signer,
                        messageHash |->
                            PackedDigest(t, cache[t].broadcastBlock.value,
                                         cache[t].confirmationBlock.value)]}]_vars

\* A proof has been signed on request for tx1, whose monitor signs none, while
\* a request for tx2 is answered 400: its record is not confirmed.
ProofServedAndProofRefused ==
    /\ \E p \in attestations : p.txHash = "tx1"
    /\ getTxProofOutcome("tx2") = "400 Transaction not confirmed yet"

\* C26: on either broadcast path a record is stored for a broadcast, and a
\* confirmation monitor is started, only in the step of a handler whose forward
\* succeeded and yielded a hash, the network having accepted the transaction;
\* the step in which a forward fails or yields no hash ends the handler with
\* the cache and the monitors as they were.
RecordOnlyAfterForwardSucceeded ==
    [][\A t \in TxHashes :
          LET stored == /\ t \in DOMAIN cache'
                        /\ cache'[t].status = Str("broadcast")
                        /\ t \in DOMAIN cache => cache'[t] # cache[t]
              started == monitors[t].pc = "none" /\ monitors'[t].pc # "none"
              failed == /\ broadcasts[t].pc \in {"send", "forward"}
                        /\ broadcasts'[t].pc = "idle"
          IN  /\ stored \/ started =>
                    /\ broadcasts[t].pc = "store"
                    /\ ~NotYetSent(t)
                    /\ stored /\ started
              /\ failed =>
                    /\ cache' = cache
                    /\ monitors' = monitors
                    /\ mempool' = mempool]_vars

\* The proxy has no wallet, so the sendTransaction that the request for tx1 is
\* about to make fails; tx1 has no record and no monitor, while the forward of
\* tx2 succeeded and tx2 has both.
ForwardFailsWithoutRecord ==
    /\ signer = NoKey
    /\ broadcasts["tx1"].pc = "send"
    /\ "tx1" \notin DOMAIN cache
    /\ monitors["tx1"].pc = "none"
    /\ "tx2" \in DOMAIN cache
    /\ monitors["tx2"].pc = "polling"

\* C27: the status of a record goes absent -> broadcast -> {confirmed, failed}
\* and stays: a record that appears is in status broadcast, and a record that
\* is confirmed or failed keeps that status for as long as it exists, whatever
\* handler, monitor or store call takes the step.
StatusIsTerminal ==
    [][\A t \in TxHashes :
          /\ t \notin DOMAIN cache /\ t \in DOMAIN cache' =>
                cache'[t].status = Str("broadcast")
          /\ t \in DOMAIN cache /\ t \in DOMAIN cache'
                /\ cache[t].status \in {Str("confirmed"), Str("failed")} =>
                cache'[t].status = cache[t].status]_vars

\* C28: in every record of the cache, delay is a number exactly when the
\* status is confirmed and broadcastBlock and confirmationBlock are both
\* numbers (0 included), and then delay = confirmationBlock - broadcastBlock.
DelayIffConfirmedWithBothHeights ==
    \A t \in DOMAIN cache :
       LET data == cache[t]
           present(v) == v.type = "number"
       IN  /\ present(data.delay) <=>
                 /\ data.status = Str("confirmed")
                 /\ present(data.broadcastBlock)
                 /\ present(data.confirmationBlock)
           /\ present(data.delay) =>
                 data.delay.value
                    = data.confirmationBlock.value - data.broadcastBlock.value

\* C29: storeBroadcast, in the step of either broadcast handler that calls it,
\* changes of an existing record only broadcastBlock and broadcastTimestamp,
\* which become the values given, every other field (the timestamp of the
\* first write and the status among them) staying as it was; where there was
\* no record it creates one in status broadcast whose timestamp is the one given.
StoreBroadcastKeepsOtherFields ==
    [][\A t \in TxHashes :
          broadcasts[t].pc = "store" /\ broadcasts'[t].pc = "idle" =>
             cache' = set(cache, t,
                IF t \in DOMAIN cache
                THEN [cache[t] EXCEPT
                        !.broadcastBlock = broadcasts[t].broadcastBlock,
                        !.broadcastTimestamp = broadcasts[t].timestamp]
                ELSE [NoFields EXCEPT
                        !.broadcastBlock = broadcasts[t].broadcastBlock,
                        !.broadcastTimestamp = broadcasts[t].timestamp,
                        !.timestamp = broadcasts[t].timestamp,
                        !.status = Str("broadcast")])]_vars

\* C30: a run of cleanup removes exactly the records first written more than
\* the max age ago, whatever their status and whichever store call created
\* them (storeConfirmation without a broadcast before it included), and keeps
\* every younger one; so after a run no record older than the max age is left.
CleanupRemovesTheOld ==
    [][cleanupInterval =>
          \A t \in DOMAIN cache :
             t \notin DOMAIN cache' <=> now - firstWrite[t] > maxAgeMs]_vars

\* C31: the run of a confirmation monitor that uses up the attempt budget,
\* with no receipt and no poll error in it, writes nothing to the cache, so the
\* record is in status broadcast, not failed, afterwards; and when the monitor
\* has ended and the record is still in status broadcast, a GET /tx/:txHash
\* that finds the receipt makes the record confirmed, with the receipt's block
\* as confirmationBlock and with delay = confirmationBlock - the broadcastBlock
\* that was recorded.
ExhaustedStaysBroadcastThenConfirmed ==
    [][\A t \in TxHashes :
          /\ (monitorTransaction(t, FALSE) \/ monitorTransactionInBackground(t, FALSE))
                /\ t \notin DOMAIN receipts
                /\ monitors'[t].pc = "done"
             => /\ cache' = cache
                /\ t \in DOMAIN cache => cache'[t].status = Str("broadcast")
          /\ getTxReceipt(t, FALSE)
                /\ t \in DOMAIN receipts
                /\ monitors[t].pc = "done"
                /\ t \in DOMAIN cache
                /\ cache[t].status = Str("broadcast")
             => cache'[t] = [cache[t] EXCEPT
                               !.status = Str("confirmed"),
                               !.confirmationBlock = Num(receipts[t]),
                               !.delay = Num(receipts[t]
                                             - cache[t].broadcastBlock.value)]]_vars

\* C32: in both monitors a poll error that occurs while attempts remain writes
\* nothing to the cache and leaves the monitor polling; only the poll error
\* that uses up the budget calls storeFailure and ends the monitor.
PollErrorRetriedUntilBudget ==
    [][\A t \in TxHashes :
          monitorTransaction(t, TRUE) \/ monitorTransactionInBackground(t, TRUE) =>
             IF monitors[t].attempts + 1 < MaxPolls
             THEN /\ cache' = cache
                  /\ monitors'[t].pc = "polling"
             ELSE /\ cache' = storeFailure(cache, t, Str("poll error"), Num(now))
                  /\ monitors'[t].pc = "done"]_vars

\* C34: when the receipt of a transaction is there while its monitor still
\* has a poll to make, and no poll of a monitor fails, then with the monitor
\* scheduled fairly the record becomes confirmed with the block of the receipt
\* as confirmationBlock and with delay = confirmationBlock - broadcastBlock
\* for the broadcastBlock that the broadcast handler recorded, whether or not
\* that handler has returned.
ReceiptInBudgetLeadsToConfirmed ==
    \A t \in TxHashes :
       \A b \in 0..MaxChainHeight :
          (/\ monitors[t].pc = "polling"
           /\ t \in DOMAIN receipts
           /\ t \in DOMAIN cache
           /\ cache[t].broadcastBlock = Num(b))
          ~> (/\ t \in DOMAIN cache
              /\ cache[t].status = Str("confirmed")
              /\ cache[t].confirmationBlock = Num(receipts[t])
              /\ cache[t].delay = Num(receipts[t] - b))

\* C33: a monitor makes at most MaxPolls receipt polls (60 in the code) and
\* then stops: a monitor with a poll scheduled has made fewer than MaxPolls
\* polls, every poll either ends the monitor or counts as one more poll made
\* and stores nothing (a poll that stores a confirmation or a failure ends the
\* monitor), a monitor that has ended schedules no poll again, and a monitor
\* is started once, by the store step of its broadcast; whatever receipts and
\* poll errors the chain returns.
MonitorPollsBounded ==
    /\ [](\A t \in TxHashes :
             /\ monitors[t].attempts <= MaxPolls
             /\ monitors[t].pc = "polling" => monitors[t].attempts < MaxPolls)
    /\ [][\A t \in TxHashes :
             /\ monitors[t].pc = "polling" /\ monitors'[t] # monitors[t] =>
                   \/ monitors'[t].pc \in {"signing", "done"}
                   \/ /\ monitors'[t].pc = "polling"
                      /\ monitors'[t].attempts = monitors[t].attempts + 1
                      /\ cache' = cache
             /\ monitors[t].pc = "signing" => monitors'[t].pc \in {"signing", "done"}
             /\ monitors[t].pc = "done" => monitors'[t] = monitors[t]
             /\ monitors[t].pc = "none" /\ monitors'[t] # monitors[t] =>
                   /\ broadcasts[t].pc = "store"
                   /\ monitors'[t] = [pc |-> "polling", attempts |-> 0,
                                      proof |-> undefined]]_vars

\* Both monitors have ended: one with its budget used up by poll errors and a
\* failure stored, the other on the receipt, before its budget was used up.
MonitorsEndedOnFailureAndOnReceipt ==
    /\ DOMAIN cache = TxHashes
    /\ monitors["tx1"].pc = "done"
    /\ monitors["tx1"].attempts = MaxPolls
    /\ cache["tx1"].status = Str("failed")
    /\ monitors["tx2"].pc = "done"
    /\ monitors["tx2"].attempts = 1
    /\ cache["tx2"].status = Str("confirmed")

\* C35: for every transaction, a step that writes the confirmation fields of
\* its record (confirmationBlock, delay) is the run of its monitor that finds
\* the receipt, and it writes them for the first time; a step that writes the
\* broadcast fields (broadcastBlock, broadcastTimestamp) is the store step of
\* its broadcast handler, and it writes them for the first time; and no other
\* step writes to the record at all, the monitor's storeFailure apart.
OneWriterPerField ==
    [][\A t \in TxHashes :
          LET before == spread(getTransaction(cache, t))
              after == spread(getTransaction(cache', t))
              byMonitor == /\ monitors[t].pc \in {"polling", "signing"}
                           /\ monitors'[t].pc \in {"signing", "done"}
                           /\ monitors'[t] # monitors[t]
              byInterceptor == /\ broadcasts[t].pc = "store"
                               /\ broadcasts'[t].pc = "idle"
          IN  t \in DOMAIN cache' =>
                /\ after.confirmationBlock # before.confirmationBlock
                      \/ after.delay # before.delay
                   => /\ byMonitor
                      /\ before.confirmationBlock = undefined
                /\ after.broadcastBlock # before.broadcastBlock
                      \/ after.broadcastTimestamp # before.broadcastTimestamp
                   => /\ byInterceptor
                      /\ before.broadcastBlock = undefined
                /\ after # before => byMonitor \/ byInterceptor]_vars

\* C36: in every state the native currency the policy holds is
\* totalPool + totalProtocolFees: after purchases, paid and rejected claims
\* and fee withdrawals, also while a payout or a withdrawal is in flight and
\* after one has been rejected by its recipient (value reaches the policy
\* through purchaseShare only).
AccountingMatchesFunds ==
    balance[PolicyAddress] = totalPool + totalProtocolFees

\* Both users have bought, the owner has withdrawn the fees, and a payout is
\* in flight: of the 4 wei deposited the policy holds 1, all of it pool.
PayoutInFlightAfterWithdrawal ==
    /\ call # NoCall
    /\ call.fn = "submitClaim"
    /\ balance[owner] = 2
    /\ totalProtocolFees = 0
    /\ totalPool = 1
    /\ balance[PolicyAddress] = 1

\* C37: coverage is credited for the whole deposit while the pool receives the
\* deposit less the fee and pays every claim in full, so (the payout per
\* incident staying as deployed) the payouts still owed to the holders
\* exceed totalPool by at least the fees held; and a
\* holder of coverage whose claim passes every check while
\* totalPool < payoutPerIncident is answered "Insufficient pool funds". The
\* state in which that happens to a sole purchaser is reachable.
CoverageExceedsPool ==
    LET covered == userInsurance[owner].incidentsRemaining
                      + userInsurance[policyFactory].incidentsRemaining
                      + userInsurance["user1"].incidentsRemaining
                      + userInsurance["user2"].incidentsRemaining
    IN  /\ covered * policyConfig.payoutPerIncident - totalPool >= totalProtocolFees
        /\ \A sender \in Users, t \in TxHashes :
              (/\ nonReentrant
               /\ userInsurance[sender].incidentsRemaining > 0
               /\ totalPool < policyConfig.payoutPerIncident) =>
                 \A proof \in ProofsOf[t] :
                    ClaimRevertReason(sender, proof) = "ok" =>
                       submitClaimOutcome(sender, proof) = "Insufficient pool funds"

\* The only purchaser deposited two payouts at once and was credited two
\* incidents; one claim was paid, the pool is empty, and the claim for the
\* other transaction, attested and unprocessed, reverts for lack of funds.
SolePurchaserPoolShort ==
    /\ call = NoCall
    /\ \A a \in Callers \ {"user1"} : userInsurance[a].ethDeposited = 0
    /\ userInsurance["user1"].ethDeposited = 2 * policyConfig.payoutPerIncident
    /\ userInsurance["user1"].incidentsRemaining = 1
    /\ totalPool = 0
    /\ \E t \in TxHashes : claimApproved[t] = 1
    /\ \E t \in TxHashes : \E proof \in ProofsOf[t] :
          /\ ClaimRevertReason("user1", proof) = "ok"
          /\ submitClaimOutcome("user1", proof) = "Insufficient pool funds"

\* C38: a configurePolicyParams that succeeds sets delayThreshold,
\* premiumPercentage, protocolFeePercentage and payoutPerIncident to the
\* values given and changes nothing else: the active flag is as it was (an
\* inactive policy stays inactive), and so are the attester, totalPool,
\* totalProtocolFees, everyone's coverage and the processed claims.
ConfigureChangesOnlyParameters ==
    [][\A sender \in Callers, d \in DelayThresholds, pr \in PremiumPercentages,
          f \in ProtocolFeePercentages, p \in PayoutsPerIncident :
          (/\ configurePolicyParamsOutcome(sender, d, pr, f, p) = "ok"
           /\ configurePolicyParams(sender, d, pr, f, p)) =>
             /\ policyConfig' = [policyConfig EXCEPT
                                    !.delayThreshold = d,
                                    !.premiumPercentage = pr,
                                    !.protocolFeePercentage = f,
                                    !.payoutPerIncident = p]
             /\ UNCHANGED <<rpcProxyAddress, totalPool, totalProtocolFees,
                            userInsurance, processedClaims>>]_vars

\* C39: what the proxy signs for a transaction names no claimant, and
\* submitClaim asks for none: the signature of signDelayProof over
\* (txHash, broadcastBlock, confirmationBlock) recovers to the proxy's key in
\* a claim by whoever submits it; a proof that is signed by the attester, above
\* the threshold and unprocessed passes every check for every caller with
\* incidentsRemaining > 0; and once a claim for the transaction has been paid,
\* every caller's claim for it, with whatever proof, is rejected with
\* "Claim already processed".
AttestationNotBoundToClaimant ==
    \A t \in TxHashes :
       /\ \A b \in BroadcastHeights, c \in Heights :
             LET proof == [txHash |-> t, broadcastBlock |-> b,
                           confirmationBlock |-> c,
                           rpcSignature |->
                              signDelayProof(t, Num(b), Num(c)).signature]
             IN  recover(ProofDigest(proof), proof.rpcSignature) = signer
       /\ policyConfig.active /\ ~processedClaims[t] =>
             \A proof \in ProofsOf[t] :
                (/\ proof.confirmationBlock >= proof.broadcastBlock
                 /\ DelaySufficient(proof)
                 /\ proof.rpcSignature # MalformedSignature
                 /\ SignedByRpcProxy(proof)) =>
                   \A sender \in Callers :
                      userInsurance[sender].incidentsRemaining > 0 =>
                         ClaimRevertReason(sender, proof) = "ok"
       /\ policyConfig.active /\ call = NoCall /\ claimApproved[t] = 1 =>
             \A sender \in Callers : \A proof \in ProofsOf[t] :
                submitClaimOutcome(sender, proof) = "Claim already processed"

\* user2 has been paid for tx1; user1, who holds coverage and has claimed
\* nothing, is refused the attested claim for tx1 although the pool could pay.
PaidToOneRefusedToOther ==
    /\ call = NoCall
    /\ claimApproved["tx1"] = 1
    /\ userInsurance["user2"].lastClaimBlock > 0
    /\ userInsurance["user1"].lastClaimBlock = 0
    /\ userInsurance["user1"].incidentsRemaining > 0
    /\ totalPool >= policyConfig.payoutPerIncident
    /\ \E proof \in ProofsOf["tx1"] :
          /\ DelaySufficient(proof)
          /\ SignedByRpcProxy(proof)
          /\ submitClaimOutcome("user1", proof) = "Claim already processed"

\* C40: a claim pays the payoutPerIncident of the configuration in force when
\* it is submitted: the step by which a submitClaim goes on to pay sends that
\* amount to the caller and takes it, and one incident, off totalPool and the
\* caller's coverage, whatever the payout was when the coverage was bought;
\* and a configurePolicyParams that changes payoutPerIncident leaves
\* everyone's incidentsRemaining and deposit as they were.
PayoutIsTheCurrentOne ==
    [][/\ (call = NoCall /\ call'.fn = "submitClaim") =>
             LET payout == policyConfig.payoutPerIncident
                 sender == call'.to
             IN  /\ policyConfig' = policyConfig
                 /\ call'.value = payout
                 /\ totalPool' = totalPool - payout
                 /\ balance'[sender] = balance[sender] + payout
                 /\ balance'[PolicyAddress] = balance[PolicyAddress] - payout
                 /\ userInsurance' = [userInsurance EXCEPT
                       ![sender].incidentsRemaining = @ - 1,
                       ![sender].lastClaimBlock = blockNumber]
       /\ policyConfig'.payoutPerIncident # policyConfig.payoutPerIncident
             /\ call' = call
          => /\ userInsurance' = userInsurance
             /\ totalPool' = totalPool]_vars

\* user1 bought two incidents for 2 wei while the payout was 1; the payout was
\* then set to 2, and the claim in flight is paying user1 2 wei out of a pool
\* of 2, with one incident left.
PaidAtNewPayout ==
    /\ call # NoCall
    /\ call.fn = "submitClaim"
    /\ call.to = "user1"
    /\ call.value = 2
    /\ policyConfig.payoutPerIncident = 2
    /\ userInsurance["user1"].ethDeposited = 2
    /\ userInsurance["user1"].incidentsRemaining = 1
    /\ call.saved.totalPool = 2
    /\ totalPool = 0

====
